---- MODULE Spec2Model ----
(***************************************************************************)
(* A model of the smgrep indexing and retrieval pipeline:                  *)
(*   - the chunker (src/src/chunker/mod.rs),                               *)
(*   - the grammar registry (src/src/grammar/mod.rs),                      *)
(*   - the daemon's indexing and search handlers                           *)
(*     (src/src/commands/serve.rs),                                        *)
(*   - the search engine (src/src/search/mod.rs).                          *)
(* Text is modelled byte by byte over a small alphabet: "x" is a           *)
(* non-whitespace ASCII byte, " " a space, "\n" a newline, "m" the lead    *)
(* byte of a two-byte UTF-8 character and "c" its continuation byte.       *)
(***************************************************************************)
EXTENDS Integers, Sequences, FiniteSets, TLC

(***************************************************************************)
(* Program constants of the chunker.                                       *)
(***************************************************************************)
MAX_LINES == 75

MAX_CHARS == 2000

OVERLAP_LINES == 10

STRIDE_LINES == MAX_LINES - OVERLAP_LINES

(***************************************************************************)
(* Strings.                                                                *)
(***************************************************************************)
NL == "\n"

\* char::is_whitespace on the modelled alphabet
IsWs(ch) == ch \in {" ", NL}

\* &s[a..b]: 0-based, half-open
Slice(s, a, b) == SubSeq(s, a + 1, b)

\* the 1-based positions of the newline bytes of s
NewlinePos(s) == {i \in 1..Len(s) : s[i] = NL}

\* the 1-based position of the k-th newline of s (1 <= k <= number of newlines)
NthNewline(s, k) ==
    LET P == NewlinePos(s)
    IN  CHOOSE i \in P : Cardinality({j \in P : j <= i}) = k

\* str::lines().count(): a final newline does not open another line
LinesCount(s) ==
    IF Len(s) = 0 THEN 0
    ELSE Cardinality(NewlinePos(s)) + (IF s[Len(s)] = NL THEN 0 ELSE 1)

\* the row of a tree-sitter point: the number of newlines before byte offset b
Row(s, b) == Cardinality({i \in 1..b : s[i] = NL})

\* s[a..b].trim().is_empty()
IsBlank(s, a, b) == \A i \in (a + 1)..b : IsWs(s[i])

\* str::trim_start on s[a..b]: the 0-based offset of the first non-whitespace
\* byte, or b when there is none
TrimStartAt(s, a, b) ==
    IF IsBlank(s, a, b) THEN b
    ELSE (CHOOSE i \in (a + 1)..b :
             ~IsWs(s[i]) /\ \A j \in (a + 1)..(i - 1) : IsWs(s[j])) - 1

\* str::trim_end on s[a..b]: the 0-based end offset after the last
\* non-whitespace byte, or a when there is none
TrimEndAt(s, a, b) ==
    IF IsBlank(s, a, b) THEN a
    ELSE CHOOSE i \in (a + 1)..b :
             ~IsWs(s[i]) /\ \A j \in (i + 1)..b : IsWs(s[j])

\* str::is_char_boundary at 0-based offset i
IsCharBoundary(s, i) == i = 0 \/ i >= Len(s) \/ s[i + 1] # "c"

\* str::floor_char_boundary: the largest boundary <= idx (no character of the
\* alphabet is longer than two bytes)
FloorCharBoundary(s, idx) ==
    IF idx >= Len(s) THEN Len(s)
    ELSE IF IsCharBoundary(s, idx) THEN idx
    ELSE idx - 1

(***************************************************************************)
(* Chunks. Chunk::new(content, start_line, end_line, chunk_type, context). *)
(* off and hdr record where the content came from: the byte offset of the  *)
(* slice in the chunked file, and whether a header line was put before it. *)
(***************************************************************************)
NewChunk(content, start_line, end_line, chunk_type, context, off, hdr) ==
    [content |-> content, start_line |-> start_line, end_line |-> end_line,
     chunk_type |-> chunk_type, context |-> context, off |-> off, hdr |-> hdr]

\* Chunker::line_range_to_byte_range. The loop visits the newlines in order,
\* counting them in current_line: it stops at newline number end_line
\* (end_byte is its index) and sets start_byte after newline number
\* start_line when it meets that one before stopping.
line_range_to_byte_range(content, start_line, end_line) ==
    LET n == Cardinality(NewlinePos(content))
        stops == end_line >= 1 /\ end_line <= n
        end_byte == IF stops THEN NthNewline(content, end_line) - 1
                    ELSE Len(content)
        start_byte == IF /\ start_line >= 1
                         /\ start_line <= n
                         /\ (stops => start_line < end_line)
                      THEN NthNewline(content, start_line)
                      ELSE 0
    IN  <<start_byte, end_byte>>

\* the loop of Chunker::split_by_chars and Chunker::split_content_by_chars over
\* content[iter..], with ln the line number given to the next piece
RECURSIVE CharSplitLoop(_, _, _, _, _, _, _)
CharSplitLoop(content, base, hdr, iter, ln, chunk_type, context) ==
    LET n == Len(content)
        a == TrimStartAt(content, iter, n)
        lim == FloorCharBoundary(Slice(content, a, n), MAX_CHARS)
        e == a + lim
        t == TrimEndAt(content, a, e)
        piece == Slice(content, a, t)
        lines == LinesCount(piece)
    IN  IF a = n THEN <<>>
        ELSE IF t = a
             THEN CharSplitLoop(content, base, hdr, e, ln, chunk_type, context)
             ELSE <<NewChunk(piece, ln, ln + lines, chunk_type, context,
                             base + a, hdr)>>
                  \o CharSplitLoop(content, base, hdr, e, ln + lines, chunk_type,
                                   context)

\* Chunker::split_content_by_chars: the pieces are Block chunks
split_content_by_chars(input, off, start_line, context) ==
    CharSplitLoop(input, off, FALSE, 0, start_line, "Block", context)

\* Chunker::split_by_chars: the pieces keep the chunk's type and context
split_by_chars(chunk) ==
    CharSplitLoop(chunk.content, chunk.off, chunk.hdr, 0, chunk.start_line,
                  chunk.chunk_type, chunk.context)

\* Chunker::extract_header_line: the first line with a non-whitespace byte,
\* trimmed; <<>> stands for None
extract_header_line(text) ==
    LET n == Len(text)
        p == TrimStartAt(text, 0, n)
        after == {i \in (p + 1)..n : text[i] = NL}
        eol == IF after = {} THEN n
               ELSE (CHOOSE i \in after : \A j \in (p + 1)..(i - 1) : text[j] # NL) - 1
    IN  IF p = n THEN <<>> ELSE Slice(text, p, TrimEndAt(text, p, eol))

\* a window loop that advances by whole windows, with no overlap
StrideNoOverlap == MAX_LINES

\* MAX_LINES - OVERLAP_LINES, at least 1
Stride == IF MAX_LINES - OVERLAP_LINES > 1 THEN MAX_LINES - OVERLAP_LINES ELSE 1

Min2(a, b) == IF a < b THEN a ELSE b

\* a variant of LineWindows: every window of fewer than MAX_LINES lines after
\* the first is dropped
RECURSIVE LineWindowsFullOnly(_, _, _, _)
LineWindowsFullOnly(chunk, header, nlines, i) ==
    LET end == Min2(i + MAX_LINES, nlines)
        r == line_range_to_byte_range(chunk.content, i, end)
        prefixed == header # <<>> /\ i > 0 /\ chunk.chunk_type # "Block"
        body == Slice(chunk.content, r[1], r[2])
        sub_content == IF prefixed THEN header \o <<NL>> \o body ELSE body
        sub == NewChunk(sub_content, chunk.start_line + i, chunk.start_line + end,
                        chunk.chunk_type, chunk.context, chunk.off + r[1], prefixed)
    IN  IF i >= nlines THEN <<>>
        ELSE IF end - i < MAX_LINES /\ i > 0
             THEN LineWindowsFullOnly(chunk, header, nlines, i + Stride)
             ELSE <<sub>> \o LineWindowsFullOnly(chunk, header, nlines, i + Stride)

\* the window loop of Chunker::split_if_too_big, from window start i
RECURSIVE LineWindows(_, _, _, _)
LineWindows(chunk, header, nlines, i) ==
    LET end == Min2(i + MAX_LINES, nlines)
        r == line_range_to_byte_range(chunk.content, i, end)
        prefixed == header # <<>> /\ i > 0 /\ chunk.chunk_type # "Block"
        body == Slice(chunk.content, r[1], r[2])
        sub_content == IF prefixed THEN header \o <<NL>> \o body ELSE body
        sub == NewChunk(sub_content, chunk.start_line + i, chunk.start_line + end,
                        chunk.chunk_type, chunk.context, chunk.off + r[1], prefixed)
    IN  IF i >= nlines THEN <<>>
        ELSE IF end - i < 3 /\ i > 0
             THEN LineWindows(chunk, header, nlines, i + Stride)
             ELSE <<sub>> \o LineWindows(chunk, header, nlines, i + Stride)

RECURSIVE FlatMap(_, _)
\* Iterator::flat_map(f).collect(): the concatenation of f over the sequence
FlatMap(f(_), s) ==
    IF s = <<>> THEN <<>> ELSE f(Head(s)) \o FlatMap(f, Tail(s))

\* the closure of the flat_map that ends Chunker::split_if_too_big
SplitSubChunk(sc) ==
    IF Len(sc.content) > MAX_CHARS THEN split_by_chars(sc) ELSE <<sc>>

\* Chunker::split_if_too_big
split_if_too_big(chunk) ==
    LET char_count == Len(chunk.content)
        line_count == LinesCount(chunk.content)
    IN  IF line_count <= MAX_LINES /\ char_count <= MAX_CHARS THEN <<chunk>>
        ELSE IF char_count > MAX_CHARS /\ line_count <= MAX_LINES
             THEN split_by_chars(chunk)
             ELSE FlatMap(SplitSubChunk,
                          LineWindows(chunk, extract_header_line(chunk.content),
                                      line_count, 0))

\* the crumb "File: {path}"
FileCrumb(path) == <<"File", path>>

\* the window loop of Chunker::simple_chunk, from window start i
RECURSIVE SimpleWindows(_, _, _, _)
SimpleWindows(content, nlines, stack, i) ==
    LET end == Min2(i + MAX_LINES, nlines)
        r == line_range_to_byte_range(content, i, end)
        sub_content == Slice(content, r[1], r[2])
        here == IF Len(sub_content) <= MAX_CHARS
                THEN <<NewChunk(sub_content, i, end, "Block", stack, r[1], FALSE)>>
                ELSE split_content_by_chars(sub_content, r[1], i, stack)
    IN  IF i >= nlines \/ end <= i THEN <<>>
        ELSE here \o SimpleWindows(content, nlines, stack, i + Stride)

\* Chunker::simple_chunk (fallback mode)
simple_chunk(content, path) ==
    SimpleWindows(content, LinesCount(content), <<FileCrumb(path)>>, 0)

(***************************************************************************)
(* Syntax mode. The parser is tree-sitter's; a parsed node is the record   *)
(*   [kind, sb, eb, parent, name, text_def, children]                      *)
(* of its kind, its byte range [sb, eb), its parent's kind, the text of    *)
(* its name ("" when it has none), whether its text passes the tests of    *)
(* is_top_level_value_def, and its named children.                         *)
(***************************************************************************)
DefinitionKinds ==
    {"function_declaration", "function_definition", "method_definition",
     "method_declaration", "class_declaration", "class_definition",
     "interface_declaration", "type_alias_declaration", "type_declaration"}

\* Chunker::unwrap_export
unwrap_export(node) ==
    IF node.kind = "export_statement" /\ Len(node.children) > 0
    THEN node.children[1]
    ELSE node

\* Chunker::is_top_level_value_def; text_def is the outcome of the tests on the
\* node's text ("=>", "function ", "class ", CONST_EXPORT_REGEX)
is_top_level_value_def(node) ==
    /\ node.kind \in {"lexical_declaration", "variable_declaration"}
    /\ node.parent \in {"program", "module", "source_file", "class_body"}
    /\ node.text_def

\* Chunker::is_definition_node
is_definition_node(node) ==
    node.kind \in DefinitionKinds \/ is_top_level_value_def(node)

\* str::contains on the kinds of the model
KindContains(kind, word) ==
    CASE word = "class" ->
            kind \in {"class_declaration", "class_definition", "class_body"}
      [] word = "interface" -> kind = "interface_declaration"
      [] word = "type_alias" -> kind = "type_alias_declaration"
      [] word = "type_declaration" -> kind = "type_declaration"
      [] word = "method" -> kind \in {"method_definition", "method_declaration"}
      [] word = "function" ->
            kind \in {"function_declaration", "function_definition"}
      [] OTHER -> FALSE

\* Chunker::classify_node
classify_node(node) ==
    IF KindContains(node.kind, "class") THEN "Class"
    ELSE IF KindContains(node.kind, "interface") THEN "Interface"
    ELSE IF \/ KindContains(node.kind, "type_alias")
            \/ KindContains(node.kind, "type_declaration") THEN "TypeAlias"
    ELSE "Other"

\* name.as_deref().unwrap_or(anonymous)
NameOr(node, anonymous) == IF node.name = "" THEN anonymous ELSE node.name

\* Chunker::label_for_node: the crumb, as <<label, name>>; <<>> stands for None
label_for_node(node) ==
    IF KindContains(node.kind, "class")
    THEN <<"Class", NameOr(node, "<anonymous class>")>>
    ELSE IF KindContains(node.kind, "method")
    THEN <<"Method", NameOr(node, "<anonymous method>")>>
    ELSE IF KindContains(node.kind, "interface")
    THEN <<"Interface", NameOr(node, "<anonymous interface>")>>
    ELSE IF \/ KindContains(node.kind, "type_alias")
            \/ KindContains(node.kind, "type_declaration")
    THEN <<"Type", NameOr(node, "<anonymous type>")>>
    ELSE IF KindContains(node.kind, "function") \/ is_top_level_value_def(node)
    THEN <<"Function", NameOr(node, "<anonymous function>")>>
    ELSE IF node.name = "" THEN <<>> ELSE <<"Symbol", node.name>>

\* Chunker::visit_node: the chunks pushed for node and its descendants, in
\* the order of the pushes
RECURSIVE visit_node(_, _, _)
visit_node(node, content, stack) ==
    LET effective == unwrap_export(node)
        is_definition == is_definition_node(effective)
        label == label_for_node(effective)
        stack2 == IF is_definition /\ label # <<>>
                  THEN Append(stack, label) ELSE stack
        own == IF is_definition
               THEN <<NewChunk(Slice(content, effective.sb, effective.eb),
                               Row(content, effective.sb),
                               Row(content, effective.eb),
                               classify_node(effective), stack2,
                               effective.sb, FALSE)>>
               ELSE <<>>
        VisitChild(child) == visit_node(child, content, stack2)
    IN  own \o FlatMap(VisitChild, effective.children)

\* the loop of Chunker::chunk_with_tree_sitter over the root's named children
\* from the k-th on, and the tail block after it: the Block chunks pushed
RECURSIVE GapBlocks(_, _, _, _, _, _)
GapBlocks(content, file_context, kids, k, cursor_index, cursor_row) ==
    IF k > Len(kids)
    THEN IF /\ cursor_index < Len(content)
            /\ ~IsBlank(content, cursor_index, Len(content))
         THEN <<NewChunk(Slice(content, cursor_index, Len(content)), cursor_row,
                         Row(content, Len(content)), "Block", <<file_context>>,
                         cursor_index, FALSE)>>
         ELSE <<>>
    ELSE LET child == kids[k]
             is_definition == is_definition_node(unwrap_export(child))
             gap == IF /\ is_definition
                       /\ child.sb > cursor_index
                       /\ ~IsBlank(content, cursor_index, child.sb)
                    THEN <<NewChunk(Slice(content, cursor_index, child.sb),
                                    cursor_row, Row(content, child.sb), "Block",
                                    <<file_context>>, cursor_index, FALSE)>>
                    ELSE <<>>
         IN  gap \o GapBlocks(content, file_context, kids, k + 1,
                              IF is_definition THEN child.eb ELSE cursor_index,
                              IF is_definition THEN Row(content, child.eb)
                              ELSE cursor_row)

\* the comparison of the sort_by of Chunker::chunk_with_tree_sitter: a <= b
ChunkLeq(a, b) ==
    \/ a.start_line < b.start_line
    \/ a.start_line = b.start_line /\ a.end_line <= b.end_line

\* slice::sort_by, a stable sort: each chunk goes after the chunks that do not
\* compare greater
RECURSIVE SortChunks(_)
SortChunks(s) ==
    IF s = <<>> THEN <<>>
    ELSE LET rest == SortChunks(SubSeq(s, 1, Len(s) - 1))
             c == s[Len(s)]
             n == Cardinality({i \in 1..Len(rest) : ChunkLeq(rest[i], c)})
         IN  SubSeq(rest, 1, n) \o <<c>> \o SubSeq(rest, n + 1, Len(rest))

\* a variant of chunk_with_tree_sitter: the blocks are kept when no
\* definition was seen
chunk_with_tree_sitter_keeping_blocks(content, path, root) ==
    LET file_context == FileCrumb(path)
        VisitTop(child) == visit_node(child, content, <<file_context>>)
        chunks == FlatMap(VisitTop, root)
        block_chunks == GapBlocks(content, file_context, root, 1, 0, 0)
    IN  SortChunks(block_chunks \o chunks)

\* Chunker::chunk_with_tree_sitter, given the language and the parse of the
\* content (root holds the named children of the root node)
chunk_with_tree_sitter(content, path, root) ==
    LET file_context == FileCrumb(path)
        VisitTop(child) == visit_node(child, content, <<file_context>>)
        chunks == FlatMap(VisitTop, root)
        block_chunks == GapBlocks(content, file_context, root, 1, 0, 0)
        saw_definition == chunks # <<>>
    IN  IF ~saw_definition THEN <<>>
        ELSE SortChunks(block_chunks \o chunks)

\* the value of get_language for a path without a usable grammar
NoLanguage == "None"

\* Chunker::chunk: language is what get_language_for_path returned
chunk(content, path, language, root) ==
    LET raw_chunks == IF language = NoLanguage THEN simple_chunk(content, path)
                      ELSE chunk_with_tree_sitter(content, path, root)
    IN  FlatMap(split_if_too_big, raw_chunks)

(***************************************************************************)
(* The files the chunker is run on. A file is a sequence of segments       *)
(* [kind, lines, width]: lines lines of width bytes each, the newline      *)
(* included, parsed as one top-level node of the segment's kind:           *)
(*   "fn"     a function_declaration;                                      *)
(*   "class"  a class_declaration whose class_body holds one               *)
(*            method_definition on the inner lines, indented;              *)
(*   "export" an export_statement around a function_declaration;           *)
(*   "arrow"  a lexical_declaration binding an arrow function;             *)
(*   "plain"  a lexical_declaration binding a plain value;                 *)
(*   "gap"    a comment;                                                   *)
(*   "wide"   a comment of two-byte characters;                            *)
(*   "blank"  whitespace, no node;                                         *)
(*   "method" a method_declaration at the top level (Go: func (r T) m());  *)
(*   "defs"   a function, a comment and a function, one line each;         *)
(*   "inline" a function, a comment and a function on one line.            *)
(***************************************************************************)
\* the files hold at most MaxSegs segments
MaxSegs == 2

\* how many lines more than MAX_LINES, and than twice MAX_LINES minus the
\* overlap, the long segments have
ExtraLines == 1

\* the bytes of "export "
ExportWidth == Len("export ")

Seg(kind, lines, width) == [kind |-> kind, lines |-> lines, width |-> width]

SegCatalog ==
    {Seg("fn", 2, 4),
     Seg("fn", 2 * MAX_LINES - OVERLAP_LINES + ExtraLines, 3),
     Seg("fn", 3, MAX_CHARS \div 2 + ExtraLines),
     Seg("class", 5, 6),
     Seg("class", MAX_LINES + 2 * ExtraLines, 4),
     Seg("export", 2, 12),
     Seg("arrow", 1, 8),
     Seg("plain", 1, 8),
     Seg("gap", MAX_LINES + ExtraLines, 30),
     Seg("wide", 1, MAX_CHARS + 2 * ExtraLines + 2),
     Seg("blank", 1, 2),
     Seg("blank", 1, MAX_CHARS + 2),
     Seg("method", 2, 4),
     Seg("defs", 3, 4),
     Seg("inline", 1, 10)}

SegSeqs == UNION {[1..n -> SegCatalog] : n \in 1..MaxSegs}

SegLen(seg) == seg.lines * seg.width

\* the byte at 0-based offset i of a segment
SegByte(seg, i) ==
    LET col == i % seg.width
        ln == i \div seg.width
    IN  IF col = seg.width - 1 THEN NL
        ELSE CASE seg.kind = "blank" -> " "
               [] seg.kind = "class" ->
                     IF ln \notin {0, seg.lines - 1} /\ col < 2 THEN " " ELSE "x"
               [] seg.kind = "export" ->
                     IF ln = 0 /\ col = ExportWidth - 1 THEN " " ELSE "x"
               [] seg.kind = "wide" ->
                     IF col = 0 THEN "x" ELSE IF col % 2 = 1 THEN "m" ELSE "c"
               [] OTHER -> "x"

RECURSIVE SegStart(_, _)
\* the byte offset at which the k-th segment starts
SegStart(segs, k) ==
    IF k = 1 THEN 0 ELSE SegStart(segs, k - 1) + SegLen(segs[k - 1])

\* the text of a segment
SegText(seg) == [i \in 1..SegLen(seg) |-> SegByte(seg, i - 1)]

RECURSIVE SegsText(_, _)
SegsText(segs, k) ==
    IF k > Len(segs) THEN <<>> ELSE SegText(segs[k]) \o SegsText(segs, k + 1)

\* the text of the file; without final_nl the last newline is left out
FileText(segs, final_nl) ==
    LET all == SegsText(segs, 1)
    IN  IF final_nl THEN all ELSE SubSeq(all, 1, Len(all) - 1)

Node(kind, sb, eb, parent, name, text_def, children) ==
    [kind |-> kind, sb |-> sb, eb |-> eb, parent |-> parent, name |-> name,
     text_def |-> text_def, children |-> children]

\* the top-level nodes of a segment that starts at byte offset off
SegNodes(seg, off) ==
    LET eb == off + SegLen(seg) - 1
    IN  CASE seg.kind = "fn" ->
               <<Node("function_declaration", off, eb, "program", "f", FALSE, <<>>)>>
          [] seg.kind = "class" ->
               <<Node("class_declaration", off, eb, "program", "C", FALSE,
                   <<Node("class_body", off + 2, eb, "class_declaration", "", FALSE,
                       <<Node("method_definition", off + seg.width + 2,
                              off + (seg.lines - 1) * seg.width - 1,
                              "class_body", "m", FALSE, <<>>)>>)>>)>>
          [] seg.kind = "export" ->
               <<Node("export_statement", off, eb, "program", "", FALSE,
                   <<Node("function_declaration", off + ExportWidth, eb,
                          "export_statement", "g", FALSE, <<>>)>>)>>
          [] seg.kind = "arrow" ->
               <<Node("lexical_declaration", off, eb, "program", "a", TRUE, <<>>)>>
          [] seg.kind = "plain" ->
               <<Node("lexical_declaration", off, eb, "program", "v", FALSE, <<>>)>>
          [] seg.kind \in {"gap", "wide"} ->
               <<Node("comment", off, eb, "program", "", FALSE, <<>>)>>
          [] seg.kind = "method" ->
               <<Node("method_declaration", off, eb, "source_file", "m", FALSE, <<>>)>>
          [] seg.kind = "defs" ->
               <<Node("function_declaration", off, off + seg.width - 1, "program",
                      "f", FALSE, <<>>),
                 Node("comment", off + seg.width, off + 2 * seg.width - 1, "program",
                      "", FALSE, <<>>),
                 Node("function_declaration", off + 2 * seg.width, eb, "program",
                      "g", FALSE, <<>>)>>
          [] seg.kind = "inline" ->
               <<Node("function_declaration", off, off + 3, "program", "f", FALSE,
                      <<>>),
                 Node("comment", off + 3, off + 6, "program", "", FALSE, <<>>),
                 Node("function_declaration", off + 6, eb, "program", "g", FALSE,
                      <<>>)>>
          [] OTHER -> <<>>

RECURSIVE FileNodesFrom(_, _)
FileNodesFrom(segs, k) ==
    IF k > Len(segs) THEN <<>>
    ELSE SegNodes(segs[k], SegStart(segs, k)) \o FileNodesFrom(segs, k + 1)

\* the named children of the root node of the parse of the file
FileNodes(segs) == FileNodesFrom(segs, 1)

\* what is kept of a chunk in the state: its bounds, the line and byte counts
\* of its content, where the content came from, its type and its context
Summary(c) ==
    [start_line |-> c.start_line, end_line |-> c.end_line,
     lines |-> LinesCount(c.content), len |-> Len(c.content),
     off |-> c.off, hdr |-> c.hdr,
     chunk_type |-> c.chunk_type, context |-> c.context]

Summaries(cs) == [i \in 1..Len(cs) |-> Summary(cs[i])]

(***************************************************************************)
(* The grammar registry (GrammarManager).                                  *)
(***************************************************************************)
\* Path::extension of the paths of the model; "" stands for None
PathExtension(path) ==
    CASE path = "a.ts" -> "ts"
      [] path = "A.TS" -> "TS"
      [] path = "notes.txt" -> "txt"
      [] OTHER -> ""

\* str::to_lowercase on the extensions of the model
ToLowercase(ext) == IF ext = "TS" THEN "ts" ELSE ext

\* GrammarManager::extension_to_language over EXTENSION_MAP
extension_to_language(ext) ==
    CASE ext = "ts" -> "typescript"
      [] ext = "py" -> "python"
      [] OTHER -> NoLanguage

\* the first part of GrammarManager::get_language_for_path: the language
\* get_language is asked for, or NoLanguage when it returns None at once
PathLanguage(path) ==
    IF PathExtension(path) = "" THEN NoLanguage
    ELSE extension_to_language(ToLowercase(PathExtension(path)))

(***************************************************************************)
(* State.                                                                  *)
(***************************************************************************)
VARIABLES
    chunkIn,      \* the call of Chunker::chunk under way: its file and language
    chunkOut,     \* the chunks it returned
    chunkDone,    \* whether it has returned
    languages,    \* GrammarManager.languages: the languages in the cache
    downloading,  \* GrammarManager.downloading: the languages being downloaded
    grammarFiles, \* the languages whose grammar file is on disk
    autoDownload, \* GrammarManager.auto_download
    callFile,     \* the file and path the callers chunk
    callPc,       \* where each caller is in Chunker::chunk
    callLang,     \* the language a caller holds, NoLanguage for none
    callOut,      \* what Chunker::chunk returned to a caller
    files,        \* the files under the root: path -> content, or NoFile
    store,        \* the vector store: the records of the store id
    manifest,     \* the MetaStore: path -> hash, or NoHash
    tasks,        \* the initial sync (task 0) and the tasks of the watcher batches
    done,         \* per path, the last indexing step that completed on it
    changes,      \* how many times the files were changed
    response,     \* the Search response being sent, if any
    server,       \* the serving daemon: its tasks' positions, flags and timers
    conns,        \* the connections of clients to the serving daemon
    boot,         \* the daemons starting on one socket path, and the path
    client,       \* a client in connect_matching_daemon
    pool          \* the EmbedWorker: its queue, workers, submitters and owner

chunkVars == <<chunkIn, chunkOut, chunkDone>>

grammarVars ==
    <<languages, downloading, grammarFiles, autoDownload, callFile, callPc,
      callLang, callOut>>

daemonVars == <<files, store, manifest, tasks, done, changes, response>>

lifeVars == <<server, conns, boot, client, pool>>

vars == <<chunkVars, grammarVars, daemonVars, lifeVars>>

\* no call of the chunker harness
ChunkIdle ==
    /\ chunkIn = <<>>
    /\ chunkOut = <<>>
    /\ chunkDone = TRUE

\* no caller of the grammar registry
GrammarIdle ==
    /\ languages = {}
    /\ downloading = {}
    /\ grammarFiles = {}
    /\ autoDownload = FALSE
    /\ callFile = <<>>
    /\ callPc = <<>>
    /\ callLang = <<>>
    /\ callOut = <<>>

\* no daemon
DaemonIdle ==
    /\ files = <<>>
    /\ store = {}
    /\ manifest = <<>>
    /\ tasks = <<>>
    /\ done = <<>>
    /\ changes = 0
    /\ response = <<>>

\* no daemon process, no client
LifeIdle ==
    /\ server = <<>>
    /\ conns = <<>>
    /\ boot = <<>>
    /\ client = <<>>
    /\ pool = <<>>

(***************************************************************************)
(* The chunker on its own: one call of Chunker::chunk on any file of the   *)
(* catalog, with or without a grammar for its language.                    *)
(***************************************************************************)
ChunkInputs ==
    [segs : SegSeqs, final_nl : BOOLEAN, language : {NoLanguage, "typescript"}]

ChunkInit ==
    /\ chunkIn \in ChunkInputs
    /\ chunkOut = <<>>
    /\ chunkDone = FALSE
    /\ GrammarIdle
    /\ DaemonIdle
    /\ LifeIdle

\* Chunker::chunk runs and returns
ChunkCall ==
    /\ ~chunkDone
    /\ chunkOut' = Summaries(chunk(FileText(chunkIn.segs, chunkIn.final_nl),
                                   "a.ts", chunkIn.language,
                                   FileNodes(chunkIn.segs)))
    /\ chunkDone' = TRUE
    /\ UNCHANGED <<chunkIn, grammarVars, daemonVars, lifeVars>>

ChunkNext == ChunkCall

SpecChunk == ChunkInit /\ [][ChunkNext]_vars

\* Calls for which no grammar is at hand: only the text of the file matters,
\* so the files are made of the segments that differ in their lines.
TextKinds == {"fn", "class", "gap", "wide", "blank"}

FallbackInputs ==
    {in \in ChunkInputs :
        /\ in.language = NoLanguage
        /\ \A i \in 1..Len(in.segs) : in.segs[i].kind \in TextKinds}

FallbackInit ==
    /\ chunkIn \in FallbackInputs
    /\ chunkOut = <<>>
    /\ chunkDone = FALSE
    /\ GrammarIdle
    /\ DaemonIdle
    /\ LifeIdle

SpecFallback == FallbackInit /\ [][ChunkNext]_vars

(***************************************************************************)
(* Chunker::split_if_too_big on its own: one call on a chunk of any number *)
(* of lines up to SplitSpan windows, its lines all of one width.  A chunk  *)
(* with wide lines, whose windows are split again by characters, is a      *)
(* Block: it gets no header line, so the offsets of its pieces are offsets *)
(* into the chunk.                                                         *)
(***************************************************************************)
\* the chunks split have at most SplitSpan * MAX_LINES lines
SplitSpan == 2

\* the bytes of a wide line, the newline included
WideLine == MAX_CHARS \div MAX_LINES + 4

SplitInputs ==
    [lines : 1..(SplitSpan * MAX_LINES), width : {2, 3}, final_nl : BOOLEAN,
     chunk_type : {"Other", "Block"}]
    \cup [lines : 1..(SplitSpan * MAX_LINES), width : {WideLine},
          final_nl : BOOLEAN, chunk_type : {"Block"}]

\* the chunk of a call: in.lines lines of in.width bytes
SplitChunk(in) ==
    NewChunk(FileText(<<Seg("fn", in.lines, in.width)>>, in.final_nl),
             0, in.lines, in.chunk_type, <<FileCrumb("a.ts")>>, 0, FALSE)

SplitInit ==
    /\ chunkIn \in SplitInputs
    /\ chunkOut = <<>>
    /\ chunkDone = FALSE
    /\ GrammarIdle
    /\ DaemonIdle
    /\ LifeIdle

\* Chunker::split_if_too_big runs and returns
SplitCall ==
    /\ ~chunkDone
    /\ chunkOut' = Summaries(split_if_too_big(SplitChunk(chunkIn)))
    /\ chunkDone' = TRUE
    /\ UNCHANGED <<chunkIn, grammarVars, daemonVars, lifeVars>>

SplitNext == SplitCall

SpecSplit == SplitInit /\ [][SplitNext]_vars

(***************************************************************************)
(* Callers of Chunker::chunk that share one GrammarManager: each runs      *)
(* get_language_for_path step by step, then chunks the file.               *)
(***************************************************************************)
\* the callers
NumCallers == 2

Callers == 1..NumCallers

CallFiles ==
    [segs : {<<Seg("fn", 2, 4)>>, <<Seg("plain", 1, 8)>>,
             <<Seg("fn", 2, 4), Seg("plain", 1, 8), Seg("class", 5, 6)>>},
     path : {"a.ts", "A.TS", "notes.txt", "Makefile"}]

\* Result<Vec<Chunk>>: Ok(chunks) or, with ok FALSE, Err
ChunkResult(ok, chunks) == [ok |-> ok, chunks |-> chunks]

GrammarInit ==
    /\ languages = {}
    /\ downloading = {}
    /\ grammarFiles \in SUBSET {"typescript"}
    /\ autoDownload \in BOOLEAN
    /\ callFile \in CallFiles
    /\ callPc = [c \in Callers |-> "start"]
    /\ callLang = [c \in Callers |-> NoLanguage]
    /\ callOut = [c \in Callers |-> ChunkResult(TRUE, <<>>)]
    /\ ChunkIdle
    /\ DaemonIdle
    /\ LifeIdle

CallLanguage == PathLanguage(callFile.path)

Goto(c, pc) == callPc' = [callPc EXCEPT ![c] = pc]

\* get_language_for_path: no extension or no language for it: None
GetLanguageNoLanguage(c) ==
    /\ callPc[c] = "start"
    /\ CallLanguage = NoLanguage
    /\ Goto(c, "chunk")
    /\ UNCHANGED <<languages, downloading, grammarFiles, autoDownload, callFile,
                   callLang, callOut, chunkVars, daemonVars, lifeVars>>

\* get_language: the read of the cache
GetLanguageCache(c) ==
    /\ callPc[c] = "start"
    /\ CallLanguage # NoLanguage
    /\ IF CallLanguage \in languages
       THEN /\ callLang' = [callLang EXCEPT ![c] = CallLanguage]
            /\ Goto(c, "chunk")
       ELSE /\ Goto(c, "available")
            /\ UNCHANGED callLang
    /\ UNCHANGED <<languages, downloading, grammarFiles, autoDownload, callFile,
                   callOut, chunkVars, daemonVars, lifeVars>>

\* get_language: is_available, and the auto_download test when it is not
GetLanguageAvailable(c) ==
    /\ callPc[c] = "available"
    /\ IF CallLanguage \in grammarFiles THEN Goto(c, "load")
       ELSE IF ~autoDownload THEN Goto(c, "chunk")
       ELSE Goto(c, "mark")
    /\ UNCHANGED <<languages, downloading, grammarFiles, autoDownload, callFile,
                   callLang, callOut, chunkVars, daemonVars, lifeVars>>

\* get_language: under the write lock of downloading, None when the language
\* is being downloaded, else mark it
GetLanguageMark(c) ==
    /\ callPc[c] = "mark"
    /\ IF CallLanguage \in downloading
       THEN /\ Goto(c, "chunk")
            /\ UNCHANGED downloading
       ELSE /\ downloading' = downloading \cup {CallLanguage}
            /\ Goto(c, "download")
    /\ UNCHANGED <<languages, grammarFiles, autoDownload, callFile, callLang,
                   callOut, chunkVars, daemonVars, lifeVars>>

\* download_grammar_sync: the file is written and renamed into place, or the
\* download fails; then the mark is removed, and a failure gives None
GetLanguageDownload(c, ok) ==
    /\ callPc[c] = "download"
    /\ grammarFiles' = IF ok THEN grammarFiles \cup {CallLanguage} ELSE grammarFiles
    /\ Goto(c, IF ok THEN "unmark_ok" ELSE "unmark_err")
    /\ UNCHANGED <<languages, downloading, autoDownload, callFile, callLang,
                   callOut, chunkVars, daemonVars, lifeVars>>

GetLanguageUnmark(c) ==
    /\ callPc[c] \in {"unmark_ok", "unmark_err"}
    /\ downloading' = downloading \ {CallLanguage}
    /\ Goto(c, IF callPc[c] = "unmark_ok" THEN "load" ELSE "chunk")
    /\ UNCHANGED <<languages, grammarFiles, autoDownload, callFile, callLang,
                   callOut, chunkVars, daemonVars, lifeVars>>

\* load_language_from_file and the insert into the cache; a file that does
\* not load is an error, which Chunker::chunk returns
GetLanguageLoad(c, ok) ==
    /\ callPc[c] = "load"
    /\ IF ok
       THEN /\ languages' = languages \cup {CallLanguage}
            /\ callLang' = [callLang EXCEPT ![c] = CallLanguage]
            /\ Goto(c, "chunk")
            /\ UNCHANGED callOut
       ELSE /\ callOut' = [callOut EXCEPT ![c] = ChunkResult(FALSE, <<>>)]
            /\ Goto(c, "done")
            /\ UNCHANGED <<languages, callLang>>
    /\ UNCHANGED <<downloading, grammarFiles, autoDownload, callFile, chunkVars, daemonVars, lifeVars>>

\* the rest of Chunker::chunk, with the language the caller holds
CallerChunk(c) ==
    /\ callPc[c] = "chunk"
    /\ callOut' = [callOut EXCEPT ![c] =
                     ChunkResult(TRUE,
                         Summaries(chunk(FileText(callFile.segs, TRUE),
                                         callFile.path, callLang[c],
                                         FileNodes(callFile.segs))))]
    /\ Goto(c, "done")
    /\ UNCHANGED <<languages, downloading, grammarFiles, autoDownload, callFile,
                   callLang, chunkVars, daemonVars, lifeVars>>

GrammarNext ==
    \E c \in Callers :
        \/ GetLanguageNoLanguage(c)
        \/ GetLanguageCache(c)
        \/ GetLanguageAvailable(c)
        \/ GetLanguageMark(c)
        \/ \E ok \in BOOLEAN : GetLanguageDownload(c, ok)
        \/ GetLanguageUnmark(c)
        \/ \E ok \in BOOLEAN : GetLanguageLoad(c, ok)
        \/ CallerChunk(c)

SpecGrammar == GrammarInit /\ [][GrammarNext]_vars

(***************************************************************************)
(* The daemon (commands/serve.rs): the initial sync and the tasks spawned  *)
(* per watcher batch index the files, clients search.  The store           *)
(* (crate::store), the manifest (crate::meta) and the watcher              *)
(* (crate::file) are not part of the sources at hand: they follow the      *)
(* specification.                                                          *)
(***************************************************************************)
\* the files are changed at most MaxChanges times
MaxChanges == 1

\* the limit of a Search request is at most MaxLimit
MaxLimit == 2

Paths == {"a.ts", "notes.txt"}

\* the order in which get_files yields the paths
PathOrder == <<"a.ts", "notes.txt">>

\* the contents a file may have; <<>> is the empty file
Contents == {<<>>, <<Seg("plain", 1, 8)>>, <<Seg("fn", 2, 4), Seg("plain", 1, 8)>>}

\* the content of a path no file is at
NoFile == <<Seg("NoFile", 0, 0)>>

\* the manifest has no entry for the path
NoHash == <<"none", <<>>>>

\* the task of the initial sync, and the task spawned for a watcher batch
TaskIds == {"sync", "watch"}

\* compute_hash: the SHA-256 of the content, one hash per content
compute_hash(content) == <<"sha256", content>>

Event(path, action) == [path |-> path, action |-> action]

\* the first step of the handling of an event
StartPc(action) == IF action = "Delete" THEN "delete_file" ELSE "read"

\* a task the watcher has not spawned
Unspawned == [queue |-> <<>>, pc |-> "unspawned", content |-> <<>>, n |-> 0]

\* a task with the events of queue to handle
TaskOn(queue) ==
    [queue |-> queue,
     pc |-> IF queue = <<>> THEN "finished" ELSE StartPc(queue[1].action),
     content |-> <<>>, n |-> 0]

\* the event a task is handling
Cur(t) == tasks[t].queue[1]

Running(t) == tasks[t].pc \notin {"unspawned", "enumerate", "finished"}

\* Store::insert_batch: the records of each path of the batch replace, in one
\* step, the records the store holds for that path
insert_batch(records) ==
    {r \in store : \A n \in records : n.path # r.path} \cup records

\* Store::delete_file
delete_file(path) == {r \in store : r.path # path}

\* MetaStore::get_hash
get_hash(path) == manifest[path]

\* MetaStore::set_hash
set_hash(path, hash) == [manifest EXCEPT ![path] = hash]

\* MetaStore::remove
remove(path) == [manifest EXCEPT ![path] = NoHash]

\* a variant of PreparedRecords: only the first record carries the hash of the
\* file
PreparedRecordsFirstOnly(path, hash, n) ==
    {[path |-> path, hash |-> IF i = 0 THEN hash ELSE NoHash, chunk_index |-> i] :
        i \in 0..(n - 1)}

\* the records process_file builds from n chunks: one per chunk, each with the
\* path and the hash of the file and its index
PreparedRecords(path, hash, n) ==
    {[path |-> path, hash |-> hash, chunk_index |-> i] : i \in 0..(n - 1)}

\* the subsequence of PathOrder that holds the paths of a set
RECURSIVE InOrder(_, _)
InOrder(S, k) ==
    IF k > Len(PathOrder) THEN <<>>
    ELSE (IF PathOrder[k] \in S THEN <<PathOrder[k]>> ELSE <<>>) \o InOrder(S, k + 1)

ExistingPaths == {p \in Paths : files[p] # NoFile}

DaemonInit ==
    /\ files \in [Paths -> Contents \cup {NoFile}]
    /\ store = {}
    /\ manifest = [p \in Paths |-> NoHash]
    /\ tasks = [t \in TaskIds |->
                  IF t = "sync" THEN [Unspawned EXCEPT !.pc = "enumerate"]
                  ELSE Unspawned]
    /\ done = [p \in Paths |-> [action |-> "none", ok |-> FALSE, task |-> "sync"]]
    /\ changes = 0
    /\ response = <<>>
    /\ ChunkIdle
    /\ GrammarIdle
    /\ LifeIdle

grammarRest ==
    <<downloading, grammarFiles, autoDownload, callFile, callPc, callLang, callOut>>

\* the handling of the current event of task t ends: the task takes its next
\* event, or ends
Returns(t, ok) ==
    /\ tasks' = [tasks EXCEPT ![t] = TaskOn(Tail(tasks[t].queue))]
    /\ done' = [done EXCEPT ![Cur(t).path] =
                  [action |-> Cur(t).action, ok |-> ok, task |-> t]]

Moves(t, pc) ==
    /\ tasks' = [tasks EXCEPT ![t].pc = pc]
    /\ UNCHANGED done

\* initial_sync: get_files lists the files under the root; when it fails
\* the sync returns the error
SyncEnumerate(ok) ==
    /\ tasks["sync"].pc = "enumerate"
    /\ tasks' = [tasks EXCEPT !["sync"] =
                   IF ok
                   THEN TaskOn([i \in 1..Len(InOrder(ExistingPaths, 1)) |->
                                   Event(InOrder(ExistingPaths, 1)[i], "Upsert")])
                   ELSE TaskOn(<<>>)]
    /\ UNCHANGED <<files, store, manifest, done, changes, response, chunkVars,
                   grammarVars, lifeVars>>

\* process_file: the read of the file, the test for an empty file, the hash
ReadFile(t) ==
    /\ tasks[t].pc = "read"
    /\ IF files[Cur(t).path] = NoFile THEN Returns(t, FALSE)
       ELSE IF files[Cur(t).path] = <<>> THEN Returns(t, TRUE)
       ELSE /\ tasks' = [tasks EXCEPT ![t].pc = "gate",
                                      ![t].content = files[Cur(t).path]]
            /\ UNCHANGED done
    /\ UNCHANGED <<files, store, manifest, changes, response, chunkVars,
                   grammarVars, lifeVars>>

\* a variant of HashGate: the hash of the manifest is not looked at
HashGateOpen(t) ==
    /\ tasks[t].pc = "gate"
    /\ Moves(t, "chunk")
    /\ UNCHANGED <<files, store, manifest, changes, response, chunkVars,
                   grammarVars, lifeVars>>

\* process_file: under the lock of the manifest, return when the manifest
\* holds the hash of the content read
HashGate(t) ==
    /\ tasks[t].pc = "gate"
    /\ IF get_hash(Cur(t).path) = compute_hash(tasks[t].content)
       THEN Returns(t, TRUE)
       ELSE Moves(t, "chunk")
    /\ UNCHANGED <<files, store, manifest, changes, response, chunkVars,
                   grammarVars, lifeVars>>

\* the outcomes of get_language_for_path for a path, as Chunker::chunk sees
\* them: the language (from the cache, or loaded and put in the cache), none
\* (no language for the path, no grammar, a download in flight or failed), or
\* an error (the grammar file does not load)
LanguageOutcomes(path) ==
    IF PathLanguage(path) = NoLanguage THEN {"none"}
    ELSE IF PathLanguage(path) \in languages THEN {"some"}
    ELSE {"some", "none", "err"}

\* process_file: the chunks of the content; no chunk, and it returns
ChunkFile(t, outcome) ==
    /\ tasks[t].pc = "chunk"
    /\ outcome \in LanguageOutcomes(Cur(t).path)
    /\ languages' = IF outcome = "some"
                    THEN languages \cup {PathLanguage(Cur(t).path)}
                    ELSE languages
    /\ IF outcome = "err" THEN Returns(t, FALSE)
       ELSE LET chunks == chunk(FileText(tasks[t].content, TRUE), Cur(t).path,
                                IF outcome = "some" THEN PathLanguage(Cur(t).path)
                                ELSE NoLanguage,
                                FileNodes(tasks[t].content))
            IN  IF chunks = <<>> THEN Returns(t, TRUE)
                ELSE /\ tasks' = [tasks EXCEPT ![t].pc = "embed",
                                               ![t].n = Len(chunks)]
                     /\ UNCHANGED done
    /\ UNCHANGED <<files, store, manifest, changes, response, chunkVars,
                   grammarRest, lifeVars>>

\* process_file: compute_hybrid on the contents of the chunks
EmbedChunks(t, ok) ==
    /\ tasks[t].pc = "embed"
    /\ IF ok THEN Moves(t, "insert") ELSE Returns(t, FALSE)
    /\ UNCHANGED <<files, store, manifest, changes, response, chunkVars,
                   grammarVars, lifeVars>>

\* a variant of InsertBatch: the error of insert_batch is not looked at
InsertBatchIgnoringError(t, ok) ==
    /\ tasks[t].pc = "insert"
    /\ store' = IF ok
                THEN insert_batch(PreparedRecords(Cur(t).path,
                                      compute_hash(tasks[t].content),
                                      tasks[t].n))
                ELSE store
    /\ Moves(t, "manifest")
    /\ UNCHANGED <<files, manifest, changes, response, chunkVars, grammarVars, lifeVars>>

\* a variant of InsertBatch: the error of insert_batch ends the task
InsertBatchAborting(t, ok) ==
    /\ tasks[t].pc = "insert"
    /\ IF ok
       THEN /\ store' = insert_batch(PreparedRecords(Cur(t).path,
                                         compute_hash(tasks[t].content),
                                         tasks[t].n))
            /\ Moves(t, "manifest")
       ELSE /\ tasks' = [tasks EXCEPT ![t] = TaskOn(<<>>)]
            /\ done' = [done EXCEPT ![Cur(t).path] =
                          [action |-> Cur(t).action, ok |-> FALSE, task |-> t]]
            /\ UNCHANGED store
    /\ UNCHANGED <<files, manifest, changes, response, chunkVars, grammarVars, lifeVars>>

\* process_file: insert_batch of the records of the file
InsertBatch(t, ok) ==
    /\ tasks[t].pc = "insert"
    /\ IF ok
       THEN /\ store' = insert_batch(PreparedRecords(Cur(t).path,
                                         compute_hash(tasks[t].content),
                                         tasks[t].n))
            /\ Moves(t, "manifest")
       ELSE /\ Returns(t, FALSE)
            /\ UNCHANGED store
    /\ UNCHANGED <<files, manifest, changes, response, chunkVars, grammarVars, lifeVars>>

\* process_file: under the lock of the manifest, set_hash and save
WriteManifest(t, saved) ==
    /\ tasks[t].pc = "manifest"
    /\ manifest' = set_hash(Cur(t).path, compute_hash(tasks[t].content))
    /\ Returns(t, saved)
    /\ UNCHANGED <<files, store, changes, response, chunkVars, grammarVars, lifeVars>>

\* the watcher's task, WatchAction::Delete: delete_file; an error is logged
DeleteFromStore(t, ok) ==
    /\ tasks[t].pc = "delete_file"
    /\ store' = IF ok THEN delete_file(Cur(t).path) ELSE store
    /\ Moves(t, "remove")
    /\ UNCHANGED <<files, manifest, changes, response, chunkVars, grammarVars, lifeVars>>

\* the watcher's task, WatchAction::Delete: under the lock of the manifest,
\* remove and save
RemoveFromManifest(t) ==
    /\ tasks[t].pc = "remove"
    /\ manifest' = remove(Cur(t).path)
    /\ Returns(t, TRUE)
    /\ UNCHANGED <<files, store, changes, response, chunkVars, grammarVars, lifeVars>>

\* a file is written, or removed
ChangeFile(path, content) ==
    /\ changes < MaxChanges
    /\ files[path] # content
    /\ files' = [files EXCEPT ![path] = content]
    /\ changes' = changes + 1
    /\ UNCHANGED <<store, manifest, tasks, done, response, chunkVars, grammarVars, lifeVars>>

\* the events of a watcher batch: one per path, Delete for a path that no
\* longer exists
BatchOf(paths) ==
    [i \in 1..Len(paths) |->
        Event(paths[i], IF files[paths[i]] = NoFile THEN "Delete" ELSE "Upsert")]

\* the sequences of distinct paths
PathSeqs ==
    {q \in UNION {[1..n -> Paths] : n \in 1..Cardinality(Paths)} :
        \A i, j \in 1..Len(q) : i # j => q[i] # q[j]}

\* the callback of start_watcher: a task is spawned for the batch (the model
\* follows one batch, next to the initial sync)
WatcherBatch(paths) ==
    /\ tasks["watch"].pc = "unspawned"
    /\ tasks' = [tasks EXCEPT !["watch"] = TaskOn(BatchOf(paths))]
    /\ UNCHANGED <<files, store, manifest, done, changes, response, chunkVars,
                   grammarVars, lifeVars>>

\* the cap of a Search request of the daemon: the request carries none, the
\* documented default applies
DefaultPerFile == 1

\* the per_file_limit of a SearchEngine::search call is at most MaxPerFile
MaxPerFile == 2

\* the rankings of at most n records of a set: sequences without repetition
Rankings(S, n) ==
    {q \in UNION {[1..m -> S] : m \in 0..n} :
        \A i, j \in 1..Len(q) : i # j => q[i] # q[j]}

\* Store::search: at most limit records of the store, ranked
StoreSearch(limit) == Rankings(store, limit)

\* the results with the same records in another order: what the structural
\* boost and the sort by score make of the ranking of the store
Reorderings(results) ==
    {q \in Rankings({results[i] : i \in 1..Len(results)}, Len(results)) :
        Len(q) = Len(results)}

\* the number of results of a path among the first n
CountOf(results, path, n) ==
    Cardinality({i \in 1..n : results[i].path = path})

\* ranking::apply_per_file_limit: walk the list, keep at most per_file_limit
\* results of each path, in order
RECURSIVE PerFileWalk(_, _, _, _)
PerFileWalk(results, per_file_limit, i, kept) ==
    IF i > Len(results) THEN kept
    ELSE PerFileWalk(results, per_file_limit, i + 1,
                     IF CountOf(kept, results[i].path, Len(kept)) < per_file_limit
                     THEN Append(kept, results[i]) ELSE kept)

apply_per_file_limit(results, per_file_limit) ==
    PerFileWalk(results, per_file_limit, 1, <<>>)

\* Vec::truncate
Truncate(results, limit) == SubSeq(results, 1, Min2(limit, Len(results)))

SearchResponse(per_file_limit, results) ==
    [per_file_limit |-> per_file_limit, results |-> results]

\* handle_search: Store::search with the limit of the request; each result
\* becomes one result of the response
HandleSearch(limit, found) ==
    /\ response = <<>>
    /\ found \in StoreSearch(limit)
    /\ response' = <<SearchResponse(DefaultPerFile, found)>>
    /\ UNCHANGED <<files, store, manifest, tasks, done, changes, chunkVars,
                   grammarVars, lifeVars>>

\* SearchEngine::search: twice the limit from the store, the boost and the
\* sort, the cap per file when per_file_limit is positive, the truncation
EngineSearch(limit, per_file_limit, found, ranked) ==
    /\ response = <<>>
    /\ found \in StoreSearch(limit * 2)
    /\ ranked \in Reorderings(found)
    /\ response' =
         <<SearchResponse(per_file_limit,
              Truncate(IF per_file_limit > 0
                       THEN apply_per_file_limit(ranked, per_file_limit)
                       ELSE ranked, limit))>>
    /\ UNCHANGED <<files, store, manifest, tasks, done, changes, chunkVars,
                   grammarVars, lifeVars>>

\* handle_client: the response is sent
SendResponse ==
    /\ response # <<>>
    /\ response' = <<>>
    /\ UNCHANGED <<files, store, manifest, tasks, done, changes, chunkVars,
                   grammarVars, lifeVars>>

TaskStep(t) ==
    \/ ReadFile(t)
    \/ HashGate(t)
    \/ \E outcome \in {"some", "none", "err"} : ChunkFile(t, outcome)
    \/ \E ok \in BOOLEAN : EmbedChunks(t, ok)
    \/ \E ok \in BOOLEAN : InsertBatch(t, ok)
    \/ \E saved \in BOOLEAN : WriteManifest(t, saved)

DeleteStep(t) ==
    \/ \E ok \in BOOLEAN : DeleteFromStore(t, ok)
    \/ RemoveFromManifest(t)

Next ==
    \/ \E ok \in BOOLEAN : SyncEnumerate(ok)
    \/ \E t \in TaskIds : TaskStep(t) \/ DeleteStep(t)
    \/ \E paths \in PathSeqs : WatcherBatch(paths)
    \/ \E path \in Paths, content \in Contents \cup {NoFile} : ChangeFile(path, content)

Spec == DaemonInit /\ [][Next]_vars

(***************************************************************************)
(* Every change reported: the files change while the initial sync runs,    *)
(* and the watcher's batch comes after the last change and holds an event  *)
(* for every path.  No call of process_file ends with an error.            *)
(***************************************************************************)
\* the step does not end the handling of a file with an error
NoFailure == \A p \in Paths : done'[p] # done[p] => done'[p].ok

ReportBatch ==
    /\ changes = MaxChanges
    /\ \E paths \in PathSeqs :
          /\ Len(paths) = Cardinality(Paths)
          /\ WatcherBatch(paths)

ReportedNext ==
    \/ \E ok \in BOOLEAN : SyncEnumerate(ok)
    \/ \E t \in TaskIds : (TaskStep(t) \/ DeleteStep(t)) /\ NoFailure
    \/ ReportBatch
    \/ \E path \in Paths, content \in Contents \cup {NoFile} : ChangeFile(path, content)

SpecReported == DaemonInit /\ [][ReportedNext]_vars

(***************************************************************************)
(* Two passes over the same files: the initial sync, then, once it has     *)
(* ended, one batch with an Upsert of every file; no file changes.         *)
(***************************************************************************)
SecondPass ==
    /\ tasks["sync"].pc = "finished"
    /\ WatcherBatch(InOrder(ExistingPaths, 1))

PassesNext ==
    \/ \E ok \in BOOLEAN : SyncEnumerate(ok)
    \/ \E t \in TaskIds : TaskStep(t)
    \/ SecondPass

SpecPasses == DaemonInit /\ [][PassesNext]_vars

(***************************************************************************)
(* Searches over an indexed store: the requests the daemon answers         *)
(* (handle_search) and the calls of SearchEngine::search.                  *)
(***************************************************************************)
\* the stores the indexing of the files leaves: for each path no record, or
\* the records of the chunks of a content
IndexedStores ==
    {UNION {PreparedRecords(p, compute_hash(c[p]), n[p]) : p \in Paths} :
        c \in [Paths -> Contents \ {<<>>}],
        n \in [Paths -> 0..Cardinality(Contents \ {<<>>})]}

SearchInit ==
    /\ store \in IndexedStores
    /\ files = [p \in Paths |-> NoFile]
    /\ manifest = [p \in Paths |-> NoHash]
    /\ tasks = [t \in TaskIds |-> Unspawned]
    /\ done = [p \in Paths |-> [action |-> "none", ok |-> FALSE, task |-> "sync"]]
    /\ changes = 0
    /\ response = <<>>
    /\ ChunkIdle
    /\ GrammarIdle
    /\ LifeIdle

SearchNext ==
    \/ \E limit \in 1..MaxLimit, found \in Rankings(store, MaxLimit) :
          HandleSearch(limit, found)
    \/ \E limit \in 1..MaxLimit, per_file_limit \in 0..MaxPerFile,
          found \in Rankings(store, 2 * MaxLimit) :
          \E ranked \in Reorderings(found) :
             EngineSearch(limit, per_file_limit, found, ranked)
    \/ SendResponse

SpecSearch == SearchInit /\ [][SearchNext]_vars

(***************************************************************************)
(* The serving daemon (commands/serve.rs, execute from the bind on): the   *)
(* accept loop, one handle_client per connection, the idle timer, the      *)
(* initial sync with its flags, and the ways out.  Indexing is followed    *)
(* file by file only (its steps are in Spec).  Time is counted in ticks,   *)
(* and only the time since the last activity is kept; the sleep of the     *)
(* idle timer ends at any time.                                            *)
(***************************************************************************)
\* idle_timeout, in ticks
IdleTimeout == 2

\* the clients open at most NumConns connections
NumConns == 2

\* the clients send at most MaxMsgs requests in all
MaxMsgs == 2

ConnIds == 1..NumConns

\* the clients: cmd/daemon.rs (the handshake first), and commands/mcp.rs and
\* the commands that write their request at once
ClientKinds == {"handshake", "direct"}

NoMsg == [kind |-> "none"]

Msg(kind) == [kind |-> kind]

\* Response::Health { status: ServerStatus { indexing, progress, .. } }
HealthResponse(indexing, progress) ==
    [kind |-> "Health", indexing |-> indexing, progress |-> progress]

\* Response::Search(SearchResponse { status, .. })
SearchStatusResponse(indexing) ==
    [kind |-> "Search", status |-> IF indexing THEN "Indexing" ELSE "Ready"]

FreeConn ==
    [state |-> "free", kind |-> "direct", inbox |-> NoMsg, req |-> NoMsg,
     reply |-> NoMsg, n |-> 0]

Alive == server.pc # "exited"

Saturate(x, max) == IF x < max THEN x + 1 ELSE max

\* ServerState::touch
touch(sv) == [sv EXCEPT !.idle = 0]

\* ServerState::idle_duration, in ticks (kept up to IdleTimeout + 1)
idle_duration(sv) == sv.idle

\* initial_sync: the progress stored after the i-th of total files
Pct(i, total) == Min2((i * 100) \div total, 100)

\* execute, from the bind to the spawns: the socket bound, the indexing flag
\* set and the initial sync spawned if the store is empty
ServeInit(is_empty) ==
    /\ server = [pc |-> "serving", accepting |-> TRUE, shutdown |-> FALSE,
                 sock |-> TRUE, cause |-> "none",
                 is_empty |-> is_empty, indexing |-> is_empty, progress |-> 0,
                 sync |-> IF is_empty THEN "enumerate" ELSE "none",
                 total |-> 0, i |-> 0,
                 idle |-> 0, timer |-> TRUE]
    /\ conns = [c \in ConnIds |-> FreeConn]
    /\ store = {}
    /\ manifest = [p \in Paths |-> NoHash]
    /\ files = <<>>
    /\ tasks = <<>>
    /\ done = <<>>
    /\ changes = 0
    /\ response = <<>>
    /\ boot = <<>>
    /\ client = <<>>
    /\ pool = <<>>
    /\ ChunkIdle
    /\ GrammarIdle

serveRest ==
    <<files, tasks, done, changes, response, boot, client, pool, chunkVars,
      grammarVars>>

\* the accept loop: a connection is accepted, handle_client is spawned and
\* touches last_activity
Accept(c, kind) ==
    /\ Alive /\ server.accepting /\ server.sock
    /\ conns[c].state = "free"
    /\ \A b \in ConnIds : b < c => conns[b].state # "free"
    /\ conns' = [conns EXCEPT ![c] = [FreeConn EXCEPT !.state = "open", !.kind = kind]]
    /\ server' = touch(server)
    /\ UNCHANGED <<store, manifest, serveRest>>

RECURSIVE SentUpTo(_)
\* the requests written so far on the connections 1..k
SentUpTo(k) == IF k = 0 THEN 0 ELSE conns[k].n + SentUpTo(k - 1)

\* the client may write its next request
MaySend(c) ==
    /\ conns[c].state = "open"
    /\ conns[c].inbox = NoMsg /\ conns[c].req = NoMsg
    /\ SentUpTo(NumConns) < MaxMsgs

Sends(c, msg) ==
    /\ conns' = [conns EXCEPT ![c].inbox = msg, ![c].reply = NoMsg,
                              ![c].n = conns[c].n + 1]
    /\ UNCHANGED <<server, store, manifest, serveRest>>

\* cmd/daemon.rs, handshake: Request::Hello is the first message
ClientHello(c) ==
    /\ MaySend(c)
    /\ conns[c].kind = "handshake" /\ conns[c].n = 0
    /\ Sends(c, Msg("Hello"))

\* commands/mcp.rs, DaemonConn::search: Request::Search on the connection as
\* connected
McpSearch(c, query) ==
    /\ MaySend(c)
    /\ conns[c].kind = "direct"
    /\ Sends(c, [kind |-> "Search", query |-> query])

\* the commands that ask for the status or the end of the daemon
ClientRequest(c, kind) ==
    /\ MaySend(c)
    /\ conns[c].kind = "direct"
    /\ kind \in {"Health", "Shutdown"}
    /\ Sends(c, Msg(kind))

\* cmd/daemon.rs, force_shutdown after a handshake that failed: Shutdown is
\* written to the stream (errors ignored) and the socket is removed
ForceShutdown(c) ==
    /\ conns[c].kind = "handshake"
    /\ conns[c].state = "closed"
    /\ conns' = [conns EXCEPT ![c].state = "gone"]
    /\ server' = [server EXCEPT !.sock = FALSE]
    /\ UNCHANGED <<store, manifest, serveRest>>

\* the process ends: every connection is closed, what was in flight is lost
Killed(cs) ==
    [c \in ConnIds |->
        IF cs[c].state = "open" THEN [cs[c] EXCEPT !.state = "closed"] ELSE cs[c]]

\* handle_client: a request is read.  Hello is no request this match knows:
\* the read fails and the loop ends.  Else touch, and: Health is answered from
\* the flags, Shutdown is answered and the process exits, a Search with an
\* empty query is answered with an Error, another Search is in flight
RecvRequest(c) ==
    /\ Alive
    /\ conns[c].state = "open"
    /\ conns[c].inbox # NoMsg
    /\ LET msg == conns[c].inbox
           read == [conns[c] EXCEPT !.inbox = NoMsg]
       IN  CASE msg.kind = "Hello" ->
                  /\ conns' = [conns EXCEPT ![c] = [read EXCEPT !.state = "closed"]]
                  /\ UNCHANGED server
             [] msg.kind = "Health" ->
                  /\ conns' = [conns EXCEPT ![c] =
                                 [read EXCEPT !.reply =
                                     HealthResponse(server.indexing, server.progress)]]
                  /\ server' = touch(server)
             [] msg.kind = "Shutdown" ->
                  /\ conns' = Killed([conns EXCEPT ![c] =
                                        [read EXCEPT !.reply = Msg("Shutdown")]])
                  /\ server' = [touch(server) EXCEPT !.pc = "exited",
                                                     !.cause = "request"]
             [] msg.kind = "Search" /\ msg.query = "" ->
                  /\ conns' = [conns EXCEPT ![c] = [read EXCEPT !.reply = Msg("Error")]]
                  /\ server' = touch(server)
             [] OTHER ->
                  /\ conns' = [conns EXCEPT ![c] = [read EXCEPT !.req = msg]]
                  /\ server' = touch(server)
    /\ UNCHANGED <<store, manifest, serveRest>>

\* a variant of SearchRespond: after an error the connection is closed
SearchRespondClosing(c, outcome) ==
    /\ Alive
    /\ conns[c].state = "open"
    /\ conns[c].req # NoMsg
    /\ conns' = [conns EXCEPT ![c].req = NoMsg,
                              ![c].state = IF outcome = "ok" THEN "open" ELSE "closed",
                              ![c].reply = IF outcome = "ok"
                                           THEN SearchStatusResponse(server.indexing)
                                           ELSE Msg("Error")]
    /\ UNCHANGED <<server, store, manifest, serveRest>>

\* handle_search: the query is encoded, the store searched; an error of one
\* or the other is answered with an Error, else the results with the status
SearchRespond(c, outcome) ==
    /\ Alive
    /\ conns[c].state = "open"
    /\ conns[c].req # NoMsg
    /\ conns' = [conns EXCEPT ![c].req = NoMsg,
                              ![c].reply = IF outcome = "ok"
                                           THEN SearchStatusResponse(server.indexing)
                                           ELSE Msg("Error")]
    /\ UNCHANGED <<server, store, manifest, serveRest>>

\* a tick of time
Tick ==
    /\ Alive
    /\ server' = [server EXCEPT !.idle = Saturate(server.idle, IdleTimeout + 1)]
    /\ server' # server
    /\ UNCHANGED <<conns, store, manifest, serveRest>>

\* a variant of IdleCheck: the timer sleeps and never sends shutdown
IdleCheckOnly ==
    /\ Alive /\ server.timer
    /\ server' = server
    /\ UNCHANGED <<conns, store, manifest, serveRest>>

\* the idle timer: after each sleep of idle_check_interval, shutdown is sent
\* if idle_duration is more than idle_timeout, and the timer ends
IdleCheck ==
    /\ Alive /\ server.timer
    /\ server' = IF idle_duration(server) > IdleTimeout
                 THEN [server EXCEPT !.shutdown = TRUE,
                                     !.timer = FALSE,
                                     !.cause = IF server.cause = "none" THEN "idle"
                                               ELSE server.cause]
                 ELSE server
    /\ UNCHANGED <<conns, store, manifest, serveRest>>

\* execute, the select: the interrupt signal
CtrlC ==
    /\ server.pc = "serving"
    /\ server' = [server EXCEPT !.pc = "abort", !.shutdown = TRUE,
                                !.cause = IF server.cause = "none" THEN "signal"
                                          ELSE server.cause]
    /\ UNCHANGED <<conns, store, manifest, serveRest>>

\* execute, the select: the shutdown channel has changed to true
ShutdownSeen ==
    /\ server.pc = "serving"
    /\ server.shutdown
    /\ server' = [server EXCEPT !.pc = "abort"]
    /\ UNCHANGED <<conns, store, manifest, serveRest>>

\* the accept loop: the shutdown channel has changed to true, the loop ends
AcceptBreak ==
    /\ Alive /\ server.accepting /\ server.shutdown
    /\ server' = [server EXCEPT !.accepting = FALSE]
    /\ UNCHANGED <<conns, store, manifest, serveRest>>

\* execute: accept_handle.abort()
AbortAccept ==
    /\ server.pc = "abort"
    /\ server' = [server EXCEPT !.pc = "unlink", !.accepting = FALSE]
    /\ UNCHANGED <<conns, store, manifest, serveRest>>

\* execute: remove_file(socket_path)
RemoveSocket ==
    /\ server.pc = "unlink"
    /\ server' = [server EXCEPT !.pc = "return", !.sock = FALSE]
    /\ UNCHANGED <<conns, store, manifest, serveRest>>

\* execute returns, main returns: the process ends with its tasks
ExecuteReturn ==
    /\ server.pc = "return"
    /\ server' = [server EXCEPT !.pc = "exited"]
    /\ conns' = Killed(conns)
    /\ UNCHANGED <<store, manifest, serveRest>>

\* the content of the files the initial sync of the serving daemon indexes
IndexedContent == <<Seg("fn", 2, 4), Seg("plain", 1, 8)>>

\* initial_sync: get_files; its error ends the sync
SyncStart(ok, total) ==
    /\ Alive
    /\ server.sync = "enumerate"
    /\ server' = IF ok
                 THEN [server EXCEPT !.total = total, !.i = 0,
                                     !.sync = IF total = 0 THEN "clear" ELSE "file"]
                 ELSE [server EXCEPT !.sync = "failed"]
    /\ UNCHANGED <<conns, store, manifest, serveRest>>

\* initial_sync: process_file on the next file, whose error is logged, and
\* the progress stored
SyncFile(ok) ==
    /\ Alive
    /\ server.sync = "file"
    /\ LET i == server.i + 1
           path == PathOrder[i]
           hash == compute_hash(IndexedContent)
       IN  /\ server' = [server EXCEPT !.i = i,
                                       !.progress = Pct(i, server.total),
                                       !.sync = IF i = server.total THEN "clear"
                                                ELSE "file"]
           /\ store' = IF ok THEN insert_batch(PreparedRecords(path, hash, 1))
                       ELSE store
           /\ manifest' = IF ok THEN set_hash(path, hash) ELSE manifest
    /\ UNCHANGED <<conns, serveRest>>

\* initial_sync: indexing.store(false)
SyncClear ==
    /\ Alive
    /\ server.sync = "clear"
    /\ server' = [server EXCEPT !.indexing = FALSE, !.sync = "final"]
    /\ UNCHANGED <<conns, store, manifest, serveRest>>

\* initial_sync: progress.store(100)
SyncFinal ==
    /\ Alive
    /\ server.sync = "final"
    /\ server' = [server EXCEPT !.progress = 100, !.sync = "done"]
    /\ UNCHANGED <<conns, store, manifest, serveRest>>

\* what the clients do
ClientNext ==
    \/ \E c \in ConnIds, kind \in ClientKinds : Accept(c, kind)
    \/ \E c \in ConnIds : ClientHello(c)
    \/ \E c \in ConnIds, query \in {"", "q"} : McpSearch(c, query)
    \/ \E c \in ConnIds, kind \in {"Health", "Shutdown"} : ClientRequest(c, kind)
    \/ \E c \in ConnIds : ForceShutdown(c)

\* what the handlers of the connections do
HandlerNext ==
    \/ \E c \in ConnIds : RecvRequest(c)
    \/ \E c \in ConnIds, outcome \in {"ok", "embed_err", "store_err"} :
          SearchRespond(c, outcome)

\* the idle timer and the ways out of execute
LifecycleNext ==
    \/ Tick
    \/ IdleCheck
    \/ CtrlC
    \/ ShutdownSeen
    \/ AcceptBreak
    \/ AbortAccept
    \/ RemoveSocket
    \/ ExecuteReturn

\* the initial sync
SyncNext ==
    \/ \E ok \in BOOLEAN, total \in 0..Len(PathOrder) : SyncStart(ok, total)
    \/ \E ok \in BOOLEAN : SyncFile(ok)
    \/ SyncClear
    \/ SyncFinal

\* the timers fire, and the tasks of the runtime are scheduled
ServeFairness ==
    /\ WF_vars(Tick)
    /\ WF_vars(IdleCheck)
    /\ WF_vars(ShutdownSeen)
    /\ WF_vars(AbortAccept)
    /\ WF_vars(RemoveSocket)
    /\ WF_vars(ExecuteReturn)

(***************************************************************************)
(* The daemon started on a store that is not empty: its clients, its idle  *)
(* timer and its ways out.                                                 *)
(***************************************************************************)
ServeNext == ClientNext \/ HandlerNext \/ LifecycleNext

SpecServe == ServeInit(FALSE) /\ [][ServeNext]_vars /\ ServeFairness

(***************************************************************************)
(* The daemon started on an empty store: the initial sync and the requests *)
(* of its clients.                                                         *)
(***************************************************************************)
IndexingNext == ClientNext \/ HandlerNext \/ SyncNext

SpecIndexing == ServeInit(TRUE) /\ [][IndexingNext]_vars

(***************************************************************************)
(* Claims about the daemon (under Spec, SpecPasses and SpecSearch).        *)
(***************************************************************************)
RecordsOf(path) == {r \in store : r.path = path}

\* a task is handling an event of the path
InProgress(path) == \E t \in TaskIds : Running(t) /\ Cur(t).path = path

\* the pcs at which a task is about to write the store or the manifest
WritePcs == {"insert", "manifest", "delete_file", "remove"}

\* C1: in every reachable state of the store, whatever the interleaving of
\* the initial sync and the watcher's upserts and deletes, the records of one
\* path all carry the same hash.
C1_NoTornWrites ==
    \A r1, r2 \in store : r1.path = r2.path => r1.hash = r2.hash

\* C1, its case: the watcher's task has replaced several records of a path
\* the initial sync had indexed with another hash.
C1_Witness ==
    \E p \in Paths :
        /\ tasks["watch"].pc = "manifest"
        /\ Cur("watch").path = p
        /\ done[p] = [action |-> "Upsert", ok |-> TRUE, task |-> "sync"]
        /\ manifest[p] \notin {NoHash, compute_hash(tasks["watch"].content)}
        /\ Cardinality(RecordsOf(p)) >= 2
        /\ \A r \in RecordsOf(p) : r.hash = compute_hash(tasks["watch"].content)

\* C2: when the last step completed on a path is an upsert, no step on the
\* path is in progress and the store holds records of the path, the manifest
\* has an entry for the path and it equals the hash of each of these records.
C2_ManifestCoherence ==
    \A p \in Paths :
        (done[p].action = "Upsert" /\ ~InProgress(p) /\ RecordsOf(p) # {})
        => /\ manifest[p] # NoHash
           /\ \A r \in RecordsOf(p) : r.hash = manifest[p]

\* C3: when the last step completed on a path is the handling of a Delete
\* event and no step on the path is in progress, the store holds no record of
\* the path and the manifest has no entry for it.
C3_DeleteRemovesBoth ==
    \A p \in Paths :
        (done[p].action = "Delete" /\ ~InProgress(p))
        => RecordsOf(p) = {} /\ manifest[p] = NoHash

C5_SingleWriter ==
    /\ Cardinality({t \in TaskIds : tasks[t].pc \in WritePcs}) <= 1
    /\ \A t1, t2 \in TaskIds :
          (t1 # t2 /\ Running(t1) /\ Running(t2)) => Cur(t1).path # Cur(t2).path

\* C10: in a search response with per_file_limit = k (1 for a Search request
\* of the daemon), no path appears more than k times.
C10_PerFileCap ==
    response # <<>>
    => \A p \in Paths :
          CountOf(response[1].results, p, Len(response[1].results))
             <= response[1].per_file_limit

(***************************************************************************)
(* The client of cmd/daemon.rs: connect_matching_daemon and what it calls. *)
(* The peer is the environment: a connect succeeds only while the socket   *)
(* file is there, and the answer to Hello is any response or an error.     *)
(***************************************************************************)
RetryCount == 2

BuildIds == {"v1", "v2"}

\* version::GIT_HASH, the build id of the client
GIT_HASH == "v1"

NoReply == [kind |-> "none", git_hash |-> "none"]

\* what recv can give after Hello was sent
Replies ==
    {[kind |-> "Hello", git_hash |-> g] : g \in BuildIds}
    \cup {[kind |-> "Health", git_hash |-> "none"],
          [kind |-> "error", git_hash |-> "none"]}

NewStream == [reply |-> NoReply, shutdown |-> FALSE, removed |-> FALSE]

\* a variant of handshake: any Hello response is taken as matching
handshakeAnyHello(reply) ==
    IF reply.kind = "Hello" THEN "Ok(true)" ELSE "Err"

\* handshake: Ok(git_hash == GIT_HASH) on a Hello response, else an error
handshake(reply) ==
    IF reply.kind = "Hello"
    THEN IF reply.git_hash = GIT_HASH THEN "Ok(true)" ELSE "Ok(false)"
    ELSE "Err"

ClientInit ==
    /\ client \in {[pc |-> "connect", waiting |-> FALSE, tries |-> 0,
                    attempts |-> 0, spawns |-> 0,
                    streams |-> <<>>, returned |-> 0, result |-> "none",
                    sock |-> sk] : sk \in BOOLEAN}
    /\ server = <<>> /\ conns = <<>> /\ boot = <<>> /\ pool = <<>>
    /\ ChunkIdle /\ GrammarIdle /\ DaemonIdle

clientRest == <<server, conns, boot, pool, chunkVars, grammarVars, daemonVars>>

\* the stream try_connect_existing is working on
CurStream == Len(client.streams)

\* try_connect_existing gave None: connect_matching_daemon spawns the daemon,
\* wait_for_daemon goes to its next sleep
AfterNone(cl) ==
    [cl EXCEPT !.pc = IF cl.waiting THEN "sleep" ELSE "spawn"]

\* try_connect_existing: the connect; a failure is Ok(None)
ClientConnect(ok) ==
    /\ client.pc = "connect"
    /\ ok => client.sock
    /\ client' = IF ok
                 THEN [client EXCEPT !.pc = "hello",
                                     !.attempts = @ + 1,
                                     !.streams = Append(@, NewStream)]
                 ELSE AfterNone([client EXCEPT !.attempts = @ + 1])
    /\ UNCHANGED clientRest

\* try_connect_existing: the handshake on the stream; Ok(true) returns the
\* stream, anything else goes to force_shutdown
ClientHandshake(reply) ==
    /\ client.pc = "hello"
    /\ client' = IF handshake(reply) = "Ok(true)"
                 THEN [client EXCEPT !.streams[CurStream].reply = reply,
                                     !.result = "stream",
                                     !.returned = CurStream,
                                     !.pc = "done"]
                 ELSE [client EXCEPT !.streams[CurStream].reply = reply,
                                     !.pc = "force"]
    /\ UNCHANGED clientRest

\* force_shutdown: Shutdown is sent on the stream and the answer read, the
\* errors of both ignored
ClientForceSend ==
    /\ client.pc = "force"
    /\ client' = [client EXCEPT !.streams[CurStream].shutdown = TRUE,
                                !.pc = "remove"]
    /\ UNCHANGED clientRest

\* force_shutdown: remove_socket; try_connect_existing then gives None
ClientRemoveSocket ==
    /\ client.pc = "remove"
    /\ client' = AfterNone([client EXCEPT !.streams[CurStream].removed = TRUE,
                                          !.sock = FALSE])
    /\ UNCHANGED clientRest

\* a variant of ClientSpawn: connect_matching_daemon starts over after the
\* spawn
ClientSpawnAgain(ok) ==
    /\ client.pc = "spawn"
    /\ client' = IF ok
                 THEN [client EXCEPT !.spawns = @ + 1, !.pc = "sleep"]
                 ELSE [client EXCEPT !.spawns = @ + 1, !.result = "spawn_error",
                                     !.pc = "done"]
    /\ UNCHANGED clientRest

\* connect_matching_daemon: spawn_daemon, its error returned, else
\* wait_for_daemon
ClientSpawn(ok) ==
    /\ client.pc = "spawn"
    /\ client' = IF ok
                 THEN [client EXCEPT !.spawns = @ + 1, !.waiting = TRUE,
                                     !.pc = "sleep"]
                 ELSE [client EXCEPT !.spawns = @ + 1, !.result = "spawn_error",
                                     !.pc = "done"]
    /\ UNCHANGED clientRest

\* wait_for_daemon: RETRY_COUNT times a sleep and try_connect_existing, then
\* the error that the daemon did not start
ClientSleep ==
    /\ client.pc = "sleep"
    /\ client' = IF client.tries < RetryCount
                 THEN [client EXCEPT !.tries = @ + 1, !.pc = "connect"]
                 ELSE [client EXCEPT !.result = "handshake_error", !.pc = "done"]
    /\ UNCHANGED clientRest

\* the spawned daemon (or another one) binds the socket
DaemonAppears ==
    /\ client.pc \in {"sleep", "connect"}
    /\ client.waiting /\ ~client.sock
    /\ client' = [client EXCEPT !.sock = TRUE]
    /\ UNCHANGED clientRest

ClientSpecNext ==
    \/ \E ok \in BOOLEAN : ClientConnect(ok)
    \/ \E reply \in Replies : ClientHandshake(reply)
    \/ ClientForceSend
    \/ ClientRemoveSocket
    \/ \E ok \in BOOLEAN : ClientSpawn(ok)
    \/ ClientSleep
    \/ DaemonAppears

SpecClient == ClientInit /\ [][ClientSpecNext]_vars

\* the steps of connect_matching_daemon itself: the caller's task is
\* scheduled until it returns, and every connect, send and recv it waits for
\* ends, with a value or an error
ClientStep ==
    \/ \E ok \in BOOLEAN : ClientConnect(ok)
    \/ \E reply \in Replies : ClientHandshake(reply)
    \/ ClientForceSend
    \/ ClientRemoveSocket
    \/ \E ok \in BOOLEAN : ClientSpawn(ok)
    \/ ClientSleep

SpecClientLive == SpecClient /\ WF_vars(ClientStep)

(***************************************************************************)
(* The start of the daemon (execute of commands/serve.rs, its first lines) *)
(* by several processes for one store id.  The socket file at the path is  *)
(* named by the process whose bind created it; "stale" is the file a dead  *)
(* daemon of an earlier time left.                                         *)
(***************************************************************************)
NumStarters == 3

Starters == 1..NumStarters

\* the file at socket_path: none, or the one created by the bind of `owner`
NoSock == 0

StaleSock == NumStarters + 1

BootInit ==
    /\ boot \in {[sock |-> sk,
                  pc |-> [d \in Starters |-> "start"],
                  unlinkedLive |-> FALSE] : sk \in {NoSock, StaleSock}}
    /\ server = <<>> /\ conns = <<>> /\ client = <<>> /\ pool = <<>>
    /\ ChunkIdle /\ GrammarIdle /\ DaemonIdle

bootRest == <<server, conns, client, pool, chunkVars, grammarVars, daemonVars>>

\* the daemon whose bind created the file is accepting on it
Listening(b) == b.sock \in Starters /\ b.pc[b.sock] = "serving"

\* socket_path.exists()
BootExists(d) ==
    /\ boot.pc[d] = "start"
    /\ boot' = [boot EXCEPT !.pc[d] = IF boot.sock # NoSock THEN "connect" ELSE "bind"]
    /\ UNCHANGED bootRest

\* try_connect: a daemon answers, "Server already running" and the return;
\* else the file is taken as stale
BootTryConnect(d) ==
    /\ boot.pc[d] = "connect"
    /\ boot' = [boot EXCEPT !.pc[d] = IF Listening(boot) THEN "returned" ELSE "remove"]
    /\ UNCHANGED bootRest

\* remove_file of the stale socket: whatever file is at the path now is
\* removed; with no file the error is returned
BootRemove(d) ==
    /\ boot.pc[d] = "remove"
    /\ boot' = IF boot.sock = NoSock
               THEN [boot EXCEPT !.pc[d] = "failed"]
               ELSE [boot EXCEPT !.pc[d] = "bind",
                                 !.sock = NoSock,
                                 !.unlinkedLive = @ \/ Listening(boot)]
    /\ UNCHANGED bootRest

\* UnixListener::bind: creates the file; with a file at the path the error
\* is returned
BootBind(d) ==
    /\ boot.pc[d] = "bind"
    /\ boot' = IF boot.sock # NoSock
               THEN [boot EXCEPT !.pc[d] = "failed"]
               ELSE [boot EXCEPT !.pc[d] = "serving", !.sock = d]
    /\ UNCHANGED bootRest

\* a serving daemon is killed: its socket file stays
BootKilled(d) ==
    /\ boot.pc[d] = "serving"
    /\ boot' = [boot EXCEPT !.pc[d] = "dead"]
    /\ UNCHANGED bootRest

BootNext ==
    \E d \in Starters :
        \/ BootExists(d)
        \/ BootTryConnect(d)
        \/ BootRemove(d)
        \/ BootBind(d)
        \/ BootKilled(d)

SpecBoot == BootInit /\ [][BootNext]_vars

(***************************************************************************)
(* The embedding worker pool (embed/worker.rs): the bounded queue of work  *)
(* items, the worker threads, the submitters inside compute_batch, and the *)
(* owner that shuts the pool down or drops it.  Time is counted in ticks   *)
(* that a submitter has waited for its answer.                             *)
(***************************************************************************)
\* num_threads, the number of worker threads
PoolSize == 2

\* Config::batch_size
BatchSize == 2

\* the texts of one compute_batch call
MaxTexts == 3

\* the threads that call compute_batch
NumSubmitters == 2

\* worker_timeout_ms, in ticks
WorkerTimeout == 1

Workers == 1..PoolSize

Submitters == 1..NumSubmitters

\* bounded(num_threads * 2)
QueueCap == PoolSize * 2

\* the i-th text that submitter s passes
Text(s, i) == <<"text", s, i>>

\* the texts of a call of submitter s with n texts
InputOf(s, n) == [i \in 1..n |-> Text(s, i)]

\* the embedding of one text
Embedding(t) == <<"emb", t>>

\* Embedder::compute_hybrid of the worker's embedder, when it succeeds: the
\* embeddings of the texts, in their order
compute_hybrid(texts) == [i \in 1..Len(texts) |-> Embedding(texts[i])]

RECURSIVE ChunksFromEnd(_, _)
\* a variant of Chunks: the sub-batches are listed from the last to the first
ChunksFromEnd(texts, n) ==
    IF Len(texts) = 0 THEN <<>>
    ELSE IF Len(texts) <= n THEN <<texts>>
    ELSE ChunksFromEnd(SubSeq(texts, n + 1, Len(texts)), n) \o <<SubSeq(texts, 1, n)>>

RECURSIVE Chunks(_, _)
\* texts.chunks(batch_size): consecutive slices of n texts, the last one of
\* what is left
Chunks(texts, n) ==
    IF Len(texts) = 0 THEN <<>>
    ELSE IF Len(texts) <= n THEN <<texts>>
    ELSE <<SubSeq(texts, 1, n)>> \o Chunks(SubSeq(texts, n + 1, Len(texts)), n)

NoResult == [ok |-> FALSE, value |-> <<>>, error |-> "none"]

Ok(v) == [ok |-> TRUE, value |-> v, error |-> "none"]

Err(e) == [ok |-> FALSE, value |-> <<>>, error |-> e]

ComputeMsg(s, texts) == [kind |-> "Compute", texts |-> texts, response |-> s]

ShutdownMsg == [kind |-> "Shutdown", texts |-> <<>>, response |-> 0]

NoWork == [kind |-> "none", texts |-> <<>>, response |-> 0]

IdleSubmitter(s, n) ==
    [pc |-> "idle", input |-> InputOf(s, n), chunks |-> <<>>,
     all_results |-> <<>>, response |-> NoResult, waited |-> 0, out |-> NoResult]

\* how many texts each submitter passes; the submitters are alike, so the
\* longer inputs are given to the first ones
InputLengths ==
    {n \in [Submitters -> 0..MaxTexts] :
        \A s, t \in Submitters : s < t => n[s] >= n[t]}

\* EmbedWorker::new: the threads are spawned, the queue is empty
EmbedInit ==
    /\ pool \in {[queue |-> <<>>,
                  workers |-> [w \in Workers |-> [pc |-> "init", msg |-> NoWork]],
                  subs |-> [s \in Submitters |-> IdleSubmitter(s, n[s])],
                  owner |-> "live", markers |-> 0] :
                 n \in InputLengths}
    /\ server = <<>> /\ conns = <<>> /\ boot = <<>> /\ client = <<>>
    /\ ChunkIdle /\ GrammarIdle /\ DaemonIdle

embedRest == <<server, conns, boot, client, chunkVars, grammarVars, daemonVars>>

\* every worker thread has ended, and with them the receiver of the queue
ReceiverGone(ws) == \A w \in Workers : ws[w].pc = "exited"

\* the last receiver is dropped: the items of the queue are dropped with
\* their response senders, and the submitters waiting on them are woken
Disconnected(pl) ==
    IF ReceiverGone(pl.workers)
    THEN [pl EXCEPT !.queue = <<>>,
                    !.subs = [s \in Submitters |->
                        IF /\ pl.subs[s].pc = "recv"
                           /\ \E k \in 1..Len(pl.queue) : pl.queue[k].response = s
                        THEN [pl.subs[s] EXCEPT !.response = Err("disconnected")]
                        ELSE pl.subs[s]]]
    ELSE pl

\* the worker thread: CandleEmbedder::new, whose error ends the thread
WorkerStart(w, ok) ==
    /\ pool.workers[w].pc = "init"
    /\ pool' = Disconnected([pool EXCEPT !.workers[w].pc =
                                IF ok THEN "recv" ELSE "exited"])
    /\ UNCHANGED embedRest

\* the worker thread: recv_timeout gives a message; Compute goes to the
\* embedder, Shutdown ends the loop
WorkerRecv(w) ==
    /\ pool.workers[w].pc = "recv"
    /\ pool.queue # <<>>
    /\ LET msg == Head(pool.queue)
           taken == [pool EXCEPT !.queue = Tail(pool.queue)]
       IN  pool' = IF msg.kind = "Shutdown"
                   THEN Disconnected([taken EXCEPT !.workers[w].pc = "exited"])
                   ELSE [taken EXCEPT !.workers[w] = [pc |-> "compute", msg |-> msg]]
    /\ UNCHANGED embedRest

\* the worker thread: compute_hybrid returns and its result is sent on the
\* response channel of the item
WorkerCompute(w, ok) ==
    /\ pool.workers[w].pc = "compute"
    /\ LET msg == pool.workers[w].msg
           result == IF ok THEN Ok(compute_hybrid(msg.texts)) ELSE Err("embedding")
       IN  pool' = [pool EXCEPT !.workers[w] = [pc |-> "recv", msg |-> NoWork],
                                !.subs[msg.response].response = result]
    /\ UNCHANGED embedRest

\* compute_batch: no texts, an empty result; else the sub-batches
ComputeBatch(s) ==
    /\ pool.owner = "live"
    /\ pool.subs[s].pc = "idle"
    /\ pool' = IF pool.subs[s].input = <<>>
               THEN [pool EXCEPT !.subs[s].pc = "done", !.subs[s].out = Ok(<<>>)]
               ELSE [pool EXCEPT !.subs[s].pc = "send",
                                 !.subs[s].chunks = Chunks(pool.subs[s].input, BatchSize)]
    /\ UNCHANGED embedRest

\* compute_batch: the next sub-batch is sent as one item with its own
\* response channel; the send waits while the queue is full and fails when
\* the receiver is gone
SendWork(s) ==
    /\ pool.subs[s].pc = "send"
    /\ IF ReceiverGone(pool.workers)
       THEN pool' = [pool EXCEPT !.subs[s].pc = "done",
                                 !.subs[s].out = Err("failed to send work")]
       ELSE /\ Len(pool.queue) < QueueCap
            /\ pool' = [pool EXCEPT
                          !.queue = Append(@, ComputeMsg(s, Head(pool.subs[s].chunks))),
                          !.subs[s].chunks = Tail(@),
                          !.subs[s].pc = "recv",
                          !.subs[s].waited = 0]
    /\ UNCHANGED embedRest

\* compute_batch: response_rx.recv() returns; an error is returned, a result
\* is appended and the loop goes on
RecvResult(s) ==
    /\ pool.subs[s].pc = "recv"
    /\ pool.subs[s].response # NoResult
    /\ LET r == pool.subs[s].response
           all == pool.subs[s].all_results \o r.value
           got == [pool.subs[s] EXCEPT !.response = NoResult, !.waited = 0]
       IN  pool' = [pool EXCEPT !.subs[s] =
                      IF ~r.ok
                      THEN [got EXCEPT !.pc = "done",
                                       !.out = IF r.error = "disconnected"
                                               THEN Err("failed to receive result")
                                               ELSE r]
                      ELSE IF got.chunks = <<>>
                      THEN [got EXCEPT !.pc = "done", !.all_results = all,
                                       !.out = Ok(all)]
                      ELSE [got EXCEPT !.pc = "send", !.all_results = all]]
    /\ UNCHANGED embedRest

\* a tick of time for the submitters that wait in response_rx.recv()
WaitTick ==
    /\ \E s \in Submitters :
          pool.subs[s].pc = "recv" /\ pool.subs[s].waited <= WorkerTimeout
    /\ pool' = [pool EXCEPT !.subs = [s \in Submitters |->
                   IF pool.subs[s].pc = "recv"
                   THEN [pool.subs[s] EXCEPT !.waited = Saturate(@, WorkerTimeout + 1)]
                   ELSE pool.subs[s]]]
    /\ UNCHANGED embedRest

\* the owner lets go of the pool, by shutdown or by drop, when no call of
\* compute_batch borrows it
PoolRelease(how) ==
    /\ pool.owner = "live"
    /\ \A s \in Submitters : pool.subs[s].pc \in {"idle", "done"}
    /\ pool' = [pool EXCEPT !.owner = how]
    /\ UNCHANGED embedRest

\* shutdown and drop: one Shutdown marker per worker; the send waits while
\* the queue is full, its error (the receiver is gone) is dropped
SendMarker ==
    /\ pool.owner \in {"shutdown", "drop"}
    /\ pool.markers < PoolSize
    /\ IF ReceiverGone(pool.workers)
       THEN pool' = [pool EXCEPT !.markers = @ + 1]
       ELSE /\ Len(pool.queue) < QueueCap
            /\ pool' = [pool EXCEPT !.markers = @ + 1,
                                    !.queue = Append(@, ShutdownMsg)]
    /\ UNCHANGED embedRest

\* shutdown: the handles are joined, then self is dropped (workers is None)
ShutdownJoin ==
    /\ pool.owner = "shutdown"
    /\ pool.markers = PoolSize
    /\ ReceiverGone(pool.workers)
    /\ pool' = [pool EXCEPT !.owner = "returned"]
    /\ UNCHANGED embedRest

\* drop: it returns after the markers, and the sender is dropped
DropReturn ==
    /\ pool.owner = "drop"
    /\ pool.markers = PoolSize
    /\ pool' = [pool EXCEPT !.owner = "returned"]
    /\ UNCHANGED embedRest

EmbedNext ==
    \/ \E w \in Workers, ok \in BOOLEAN : WorkerStart(w, ok)
    \/ \E w \in Workers : WorkerRecv(w)
    \/ \E w \in Workers, ok \in BOOLEAN : WorkerCompute(w, ok)
    \/ \E s \in Submitters : ComputeBatch(s)
    \/ \E s \in Submitters : SendWork(s)
    \/ \E s \in Submitters : RecvResult(s)
    \/ \E how \in {"shutdown", "drop"} : PoolRelease(how)
    \/ SendMarker
    \/ ShutdownJoin
    \/ DropReturn

SpecEmbed == EmbedInit /\ [][EmbedNext]_vars

\* the pool with the time the submitters wait
EmbedWaitNext == EmbedNext \/ WaitTick

SpecEmbedWait == EmbedInit /\ [][EmbedWaitNext]_vars

(***************************************************************************)
(* Claims about the serving daemon (under SpecServe and SpecIndexing) and  *)
(* about the failures of process_file (under Spec).                        *)
(***************************************************************************)
\* C11: on every connection the first message the client sends is Hello, and
\* a connection whose Hello the daemon has read holds one Hello response and
\* is open.
C11_HelloHandshake ==
    \A c \in ConnIds :
        /\ (conns[c].n = 1 /\ conns[c].inbox # NoMsg) => conns[c].inbox.kind = "Hello"
        /\ (conns[c].kind = "handshake" /\ conns[c].n = 1 /\ conns[c].inbox = NoMsg)
           => (conns[c].reply.kind = "Hello" /\ conns[c].state = "open")

\* try_connect_existing has finished with stream k
Settled(k) ==
    \/ k < CurStream
    \/ client.pc \in {"spawn", "sleep", "connect", "done"}

\* C12: a stream that connect_matching_daemon returns is one whose own
\* handshake gave a Hello with the caller's build id; and on every stream
\* whose handshake gave another build id or failed, Shutdown was sent, the
\* socket was removed after it, and it is not the stream returned.
C12_MatchingStream ==
    /\ client.result = "stream"
       => /\ client.returned \in 1..CurStream
          /\ client.streams[client.returned].reply
                 = [kind |-> "Hello", git_hash |-> GIT_HASH]
    /\ \A k \in 1..CurStream :
          (Settled(k) /\ client.streams[k].reply
                             # [kind |-> "Hello", git_hash |-> GIT_HASH])
          => /\ client.streams[k].shutdown
             /\ client.streams[k].removed
             /\ client.returned # k

\* C12, its case: the first daemon answered with another build id, was shut
\* down and its socket removed; a later stream matched and was returned.
C12_Witness ==
    /\ client.result = "stream"
    /\ client.returned > 1
    /\ client.streams[1].reply = [kind |-> "Hello", git_hash |-> "v2"]
    /\ client.streams[1].shutdown /\ client.streams[1].removed

\* the handshake of stream k matched
Matched(k) == client.streams[k].reply = [kind |-> "Hello", git_hash |-> GIT_HASH]

\* the attempts, spawns and sleeps of connect_matching_daemon so far: one
\* attempt, then at most one spawn, then at most RetryCount attempts, one
\* after each sleep
CountsInOrder ==
    /\ client.spawns <= 1
    /\ client.tries <= RetryCount
    /\ client.attempts <= 1 + client.tries
    /\ client.tries > 0 => client.spawns = 1
    /\ client.spawns = 1 => client.attempts >= 1

\* what connect_matching_daemon returned, once it has: the stream of its last
\* attempt, the first whose handshake matched, or the error of wait_for_daemon
\* after RetryCount attempts of which none matched
ReturnsStreamOrHandshakeError ==
    client.pc = "done"
    => \/ /\ client.result = "stream"
          /\ client.returned = CurStream
          /\ \A k \in 1..CurStream : Matched(k) <=> k = CurStream
       \/ /\ client.result = "handshake_error"
          /\ client.spawns = 1
          /\ client.attempts = 1 + RetryCount
          /\ \A k \in 1..CurStream : ~Matched(k)

\* connect_matching_daemon returned the error of spawn_daemon, after its one
\* attempt
ReturnsSpawnError ==
    /\ client.pc = "done"
    /\ client.result = "spawn_error"
    /\ client.attempts = 1 /\ client.spawns = 1
    /\ \A k \in 1..CurStream : ~Matched(k)

C13_SingleDaemon ==
    /\ Cardinality({d \in Starters : boot.pc[d] = "serving"}) <= 1
    /\ ~boot.unlinkedLive

\* C14: when the daemon is serving and more than idle_timeout has passed
\* since the last activity, then either activity comes again or the daemon
\* ends with the accept loop stopped and the socket file removed.
C14_IdleExit ==
    (server.pc = "serving" /\ idle_duration(server) > IdleTimeout)
    ~> (\/ idle_duration(server) <= IdleTimeout
        \/ (server.pc = "exited" /\ ~server.accepting /\ ~server.sock))

\* C14, its case: the idle timer has sent the shutdown and the daemon has
\* ended, its socket removed.
C14_Witness ==
    /\ server.cause = "idle"
    /\ server.pc = "exited"
    /\ ~server.sock
    /\ ~server.accepting

\* C15: the step in which the daemon reads a request, of any kind, or
\* accepts a connection sets last_activity to now; and the idle timer sends
\* the shutdown only when more than idle_timeout has passed since.
C15_ActivityResetsIdle ==
    [][/\ \A c \in ConnIds :
             \/ (conns[c].inbox # NoMsg /\ conns'[c].inbox = NoMsg)
             \/ (conns[c].state = "free" /\ conns'[c].state = "open")
             => idle_duration(server') = 0
       /\ (server.cause # "idle" /\ server'.cause = "idle")
             => idle_duration(server) > IdleTimeout]_vars

\* C16: when the daemon has ended, by whatever way, its accept loop had
\* stopped, no request it had read is left without its response, and the
\* socket file is removed.
C16_GracefulShutdown ==
    server.pc = "exited"
    => /\ ~server.accepting
       /\ \A c \in ConnIds : conns[c].req = NoMsg
       /\ ~server.sock

\* the step in which an Error response reaches connection c
ErrorStep(c) == conns'[c].reply = Msg("Error") /\ conns[c].reply # Msg("Error")

\* C17: the step in which a Search fails answers it with one Error, leaves
\* the connection open and the other connections as they are, the daemon
\* running, and the store, the manifest, the indexing flag and the progress
\* unchanged.
C17_SearchFailureIsolated ==
    [][\A c \in ConnIds :
          ErrorStep(c)
          => /\ conns'[c].state = "open"
             /\ conns'[c].req = NoMsg /\ conns'[c].inbox = NoMsg
             /\ \A b \in ConnIds \ {c} : conns'[b] = conns[b]
             /\ server'.pc = server.pc
             /\ store' = store /\ manifest' = manifest
             /\ server'.indexing = server.indexing
             /\ server'.progress = server.progress]_vars

\* C17, its case: during the initial sync a Search of a connection has
\* failed after the store search while another connection has a Search in
\* flight.
C17_Witness ==
    \E c, b \in ConnIds :
        /\ c # b
        /\ server.sync = "file" /\ store # {}
        /\ conns[c].state = "open"
        /\ conns[c].reply = Msg("Error")
        /\ conns[b].state = "open" /\ conns[b].req # NoMsg

\* the step in which process_file of task t fails at the read, the chunking,
\* the embedding or the store write
FailStep(t) ==
    /\ tasks[t].pc \in {"read", "chunk", "embed", "insert"}
    /\ tasks'[t] # tasks[t]
    /\ done'[Cur(t).path] = [action |-> "Upsert", ok |-> FALSE, task |-> t]

\* C18: the step in which process_file fails at the read, the chunking, the
\* embedding or the store write leaves the manifest as it is, and the task
\* goes on with the events that remain.
C18_FailureSkipsFile ==
    [][\A t \in TaskIds :
          FailStep(t)
          => /\ manifest' = manifest
             /\ tasks'[t] = TaskOn(Tail(tasks[t].queue))]_vars

\* C18, its case: a task whose store write failed for one file, which has no
\* entry in the manifest, is processing the next file.
C18_Witness ==
    \E t \in TaskIds, p \in Paths :
        /\ Running(t) /\ Cur(t).path # p
        /\ done[p] = [action |-> "Upsert", ok |-> FALSE, task |-> t]
        /\ manifest[p] = NoHash
        /\ files[p] \notin {NoFile, <<>>}

\* C19: on a daemon started with an empty store, every Health response has a
\* progress in 0..100, and 100 when its indexing is false.
C19_HealthProgress ==
    \A c \in ConnIds :
        (server.is_empty /\ conns[c].reply.kind = "Health")
        => /\ conns[c].reply.progress \in 0..100
           /\ ~conns[c].reply.indexing => conns[c].reply.progress = 100

\* C20: on a daemon started with an empty store, once the initial sync has
\* ended, indexing is false and progress is 100 (so that every Search
\* response from then on has the status Ready).
C20_SyncEnds ==
    (server.is_empty /\ server.sync \in {"done", "failed"})
    => (~server.indexing /\ server.progress = 100)

(***************************************************************************)
(* Claims about the embedding worker pool (under SpecEmbed).               *)
(***************************************************************************)
\* the work items that are queued or in the hands of a worker
ItemsInFlight ==
    {pool.queue[k] : k \in 1..Len(pool.queue)}
    \cup {pool.workers[w].msg : w \in Workers}

\* C21: every work item of a submitter holds between 1 and batch_size texts,
\* the ones that follow in its input the texts already answered; and a call
\* that has returned a result has returned, for each text of its input and in
\* the order of the input, the embedding of that text.
C21_OrderedResults ==
    /\ \A m \in ItemsInFlight :
          m.kind = "Compute"
          => LET sub == pool.subs[m.response]
                 from == Len(sub.all_results)
             IN  /\ Len(m.texts) \in 1..BatchSize
                 /\ sub.pc = "recv"
                 /\ m.texts = SubSeq(sub.input, from + 1, from + Len(m.texts))
    /\ \A s \in Submitters :
          (pool.subs[s].pc = "done" /\ pool.subs[s].out.ok)
          => /\ Len(pool.subs[s].out.value) = Len(pool.subs[s].input)
             /\ \A i \in 1..Len(pool.subs[s].input) :
                   pool.subs[s].out.value[i] = Embedding(pool.subs[s].input[i])

\* C21, its case: two submitters, each with more texts than one sub-batch
\* holds, have both got their results.
C21_Witness ==
    \E s, t \in Submitters :
        /\ s # t
        /\ \A u \in {s, t} :
              /\ pool.subs[u].pc = "done" /\ pool.subs[u].out.ok
              /\ Len(pool.subs[u].out.value) = MaxTexts
              /\ MaxTexts > BatchSize

\* C22: no submitter is still waiting for the answer to a sub-batch when
\* more than worker_timeout_ms has passed since it sent it.
C22_WaitTimesOut ==
    \A s \in Submitters :
        pool.subs[s].pc = "recv" => pool.subs[s].waited <= WorkerTimeout

\* C23: when the shutdown or the drop of the pool has returned, every worker
\* thread has ended.
C23_ReleaseJoins ==
    pool.owner = "returned" => \A w \in Workers : pool.workers[w].pc = "exited"

\* where the item a submitter waits on is: how many times it is in the
\* queue, how many workers hold it, and whether its answer has come
TimesQueued(s) ==
    Cardinality({k \in 1..Len(pool.queue) :
                    pool.queue[k].kind = "Compute" /\ pool.queue[k].response = s})

TimesHeld(s) ==
    Cardinality({w \in Workers :
                    pool.workers[w].msg.kind = "Compute"
                    /\ pool.workers[w].msg.response = s})

TimesAnswered(s) == IF pool.subs[s].response # NoResult THEN 1 ELSE 0

\* C39: the item a submitter waits on is in one place only - in the queue
\* once, with one worker, or answered - and no item is anywhere when the
\* submitter waits on none; an answer comes from a worker that took the item
\* (the item is not dropped) and, when it is a result, it is the result of
\* the texts this submitter sent; the queue holds at most 2 * pool_size
\* items.
C39_ExactlyOnce ==
    /\ Len(pool.queue) <= QueueCap
    /\ \A s \in Submitters :
          LET sub == pool.subs[s]
              from == Len(sub.all_results)
          IN  /\ TimesQueued(s) + TimesHeld(s) + TimesAnswered(s)
                    = (IF sub.pc = "recv" THEN 1 ELSE 0)
              /\ sub.response # Err("disconnected")
              /\ sub.response.ok
                 => /\ Len(sub.response.value) \in 1..BatchSize
                    /\ sub.response.value
                          = compute_hybrid(SubSeq(sub.input, from + 1,
                                                  from + Len(sub.response.value)))

(***************************************************************************)
(* Claims about the grammar cache (under SpecGrammar).                     *)
(***************************************************************************)
\* C24: at no time are two downloads of the language in flight, and no
\* download is in flight once the grammar file of the language is in place.
C24_SingleDownload ==
    /\ Cardinality({c \in Callers : callPc[c] = "download"}) <= 1
    /\ \A c \in Callers : callPc[c] = "download" => CallLanguage \notin grammarFiles

\* C25: a requester that finds the download of its language in flight does
\* not go on without the language: it does not leave get_language with None.
C25_Coalesce ==
    [][\A c \in Callers :
          (callPc[c] = "mark" /\ CallLanguage \in downloading /\ callPc'[c] # "mark")
          => callPc'[c] # "chunk"]_vars

\* C30: the step with which get_language leaves after its download failed
\* returns an error to the caller, with no mark of the download and no
\* grammar file left.
C30_DownloadErrorReturned ==
    [][\A c \in Callers :
          (callPc[c] = "unmark_err" /\ callPc'[c] # "unmark_err")
          => /\ callPc'[c] = "done"
             /\ callOut'[c] = ChunkResult(FALSE, <<>>)
             /\ CallLanguage \notin downloading'
             /\ CallLanguage \notin grammarFiles']_vars

\* C31: when the grammar file of the language does not load, the step that
\* leaves load_language_from_file deletes the file and goes on to a download
\* of the language: the first failure does not end the lookup.
C31_CorruptBlobRedownload ==
    [][\A c \in Callers :
          (callPc[c] = "load" /\ callPc'[c] # "load" /\ CallLanguage \notin languages')
          => /\ CallLanguage \notin grammarFiles'
             /\ callPc'[c] \in {"mark", "download"}]_vars

\* the paths of the three cases of C32: no extension or an extension that is
\* not in the table, or no grammar file with auto_download off
NonePath ==
    \/ CallLanguage = NoLanguage
    \/ CallLanguage \notin grammarFiles /\ ~autoDownload

\* C32: get_language_for_path returns none, with no download started and the
\* cache and the set of downloads left as they were, for a path with no
\* extension, with an extension that is not in the table, or whose grammar
\* file is absent with auto_download off; the chunker goes on in fallback
\* mode (with no language) for these paths and no others.
C32_NoneWithoutEffect ==
    [][\A c \in Callers :
          (callPc[c] # "chunk" /\ callPc'[c] = "chunk")
          => /\ (callLang'[c] = NoLanguage) <=> NonePath
             /\ NonePath => /\ callPc[c] \in {"start", "available"}
                            /\ languages' = languages
                            /\ downloading' = downloading]_vars

(***************************************************************************)
(* Claims about the chunker (under SpecChunk and SpecGrammar).             *)
(***************************************************************************)
\* C6: every chunk Chunker::chunk returns has at most MAX_LINES lines and at
\* most MAX_CHARS bytes of content.
C6_ChunkBounds ==
    chunkDone =>
        \A i \in 1..Len(chunkOut) :
            chunkOut[i].lines <= MAX_LINES /\ chunkOut[i].len <= MAX_CHARS

\* C7: the sequence Chunker::chunk returns is non-decreasing in
\* (start_line, end_line).
C7_ChunkOrdering ==
    chunkDone =>
        \A i \in 1..(Len(chunkOut) - 1) :
            \/ chunkOut[i].start_line < chunkOut[i + 1].start_line
            \/ /\ chunkOut[i].start_line = chunkOut[i + 1].start_line
               /\ chunkOut[i].end_line <= chunkOut[i + 1].end_line

\* the number of lines of the file that the content of a chunk spans: the
\* lines of its content, less the header line put before it
SourceLines(c) == c.lines - (IF c.hdr THEN 1 ELSE 0)

\* C8: for every chunk returned, start_line <= end_line and
\* [start_line, end_line) is the half-open range of the lines of the file the
\* content spans: end_line - start_line is the number of lines spanned.
C8_ChunkLineRange ==
    chunkDone =>
        \A i \in 1..Len(chunkOut) :
            /\ chunkOut[i].start_line <= chunkOut[i].end_line
            /\ chunkOut[i].end_line - chunkOut[i].start_line
                  = SourceLines(chunkOut[i])

\* C9: two calls of Chunker::chunk with the same content and path return the
\* same chunk sequence, whatever the grammar cache, the grammar files on disk
\* and the downloads in flight at the time of each call.
C9_ChunkDeterministic ==
    \A c1, c2 \in Callers :
        /\ callPc[c1] = "done" /\ callOut[c1].ok
        /\ callPc[c2] = "done" /\ callOut[c2].ok
        => callOut[c1].chunks = callOut[c2].chunks

\* the text and the top-level nodes of the file of the call
CallText == FileText(chunkIn.segs, chunkIn.final_nl)

CallNodes == FileNodes(chunkIn.segs)

\* the top-level nodes that are definitions
TopDefs == {k \in 1..Len(CallNodes) : is_definition_node(unwrap_export(CallNodes[k]))}

\* the crumbs of a chunk's context that are labelled Function or Class
HasCrumb(c) == \E i \in 1..Len(c.context) : c.context[i][1] \in {"Function", "Class"}

\* C26: a file parsed with its grammar that holds a top-level definition
\* gives at least one chunk of type Function, Class, Interface or TypeAlias,
\* or of type Other with a Function or Class crumb in its context.
C26_DefinitionCoverage ==
    (chunkDone /\ chunkIn.language # NoLanguage /\ TopDefs # {})
    => \E i \in 1..Len(chunkOut) :
          \/ chunkOut[i].chunk_type \in {"Function", "Class", "Interface", "TypeAlias"}
          \/ chunkOut[i].chunk_type = "Other" /\ HasCrumb(chunkOut[i])

\* the lines of the file of the call
CallLines == LinesCount(CallText)

\* the first lines of the windows of the fallback mode
WindowStarts == {i \in 0..(CallLines - 1) : i % STRIDE_LINES = 0}

\* every window of the fallback mode has at most MAX_CHARS bytes
WindowsFit ==
    \A i \in WindowStarts :
        LET end == Min2(i + MAX_LINES, CallLines)
            r == line_range_to_byte_range(CallText, i, end)
        IN  r[2] - r[1] <= MAX_CHARS

\* the upper integer part of a / b, for b > 0
CeilDiv(a, b) == (a + b - 1) \div b

\* a call in fallback mode on a file of at least one line whose windows fit
FallbackCase ==
    /\ chunkDone /\ chunkIn.language = NoLanguage
    /\ CallLines >= 1
    /\ WindowsFit

\* the chunks are the windows that start at 0, STRIDE_LINES, 2*STRIDE_LINES,
\* ..., each of at most MAX_LINES lines
WindowPerChunk ==
    \A k \in 1..Len(chunkOut) :
        /\ chunkOut[k].start_line = (k - 1) * STRIDE_LINES
        /\ chunkOut[k].end_line = Min2(chunkOut[k].start_line + MAX_LINES, CallLines)
        /\ chunkOut[k].lines <= MAX_LINES

\* C27, as amended: in fallback mode a file of N >= 1 lines whose windows fit
\* in MAX_CHARS gives one chunk per window starting at 0, STRIDE_LINES, ...,
\* each of at most MAX_LINES lines: the upper integer part of N / STRIDE_LINES
\* chunks.
C27_FallbackWindows ==
    FallbackCase
    => /\ WindowPerChunk
       /\ Len(chunkOut) = CeilDiv(CallLines, STRIDE_LINES)

\* C27, as stated: ... the upper integer part of
\* (N - OVERLAP_LINES) / STRIDE_LINES chunks.
C27_AsStated ==
    FallbackCase
    => /\ WindowPerChunk
       /\ Len(chunkOut) = CeilDiv(CallLines - OVERLAP_LINES, STRIDE_LINES)

\* C27, its case: a file of more lines than two strides, in three windows.
C27_Witness ==
    /\ FallbackCase
    /\ CallLines > 2 * STRIDE_LINES
    /\ Len(chunkOut) = 3

\* the chunk at i is the first chunk of the definition of top-level node k
IsDefChunk(i, k) ==
    /\ chunkOut[i].chunk_type # "Block"
    /\ chunkOut[i].off = unwrap_export(CallNodes[k]).sb
    /\ ~chunkOut[i].hdr

\* the chunk at i is a Block whose text starts in the bytes from..to
IsGapChunk(i, from, to) ==
    /\ chunkOut[i].chunk_type = "Block"
    /\ chunkOut[i].off >= from
    /\ chunkOut[i].off < to

\* top-level definitions k and l with no definition between them
Consecutive(k, l) == k < l /\ \A m \in TopDefs : ~(k < m /\ m < l)

\* C28: in syntax mode, for two consecutive top-level definitions, text
\* between them that is not whitespace comes out as a Block chunk after the
\* chunk of the first and before the chunk of the second, a whitespace gap
\* gives no Block chunk, and text after the last definition that is not
\* whitespace gives a Block chunk at the end.
C28_GapBlocks ==
    (chunkDone /\ chunkIn.language # NoLanguage /\ TopDefs # {})
    => /\ \A k, l \in TopDefs :
             Consecutive(k, l)
             => LET from == CallNodes[k].eb
                    to == CallNodes[l].sb
                IN  IF IsBlank(CallText, from, to)
                    THEN \A j \in 1..Len(chunkOut) : ~IsGapChunk(j, from, to)
                    ELSE \E i, j, m \in 1..Len(chunkOut) :
                            /\ i < j /\ j < m
                            /\ IsDefChunk(i, k)
                            /\ IsGapChunk(j, from, to)
                            /\ IsDefChunk(m, l)
       /\ LET last == CHOOSE k \in TopDefs : \A m \in TopDefs : m <= k
              from == CallNodes[last].eb
          IN  ~IsBlank(CallText, from, Len(CallText))
              => /\ \E j \in 1..Len(chunkOut) : IsGapChunk(j, from, Len(CallText))
                 /\ IsGapChunk(Len(chunkOut), from, Len(CallText))

\* C35: in fallback mode, a content of at least one line gives at least one
\* chunk, and every chunk is a Block whose context is the one crumb of the
\* file.
C35_FallbackBlocks ==
    (chunkDone /\ chunkIn.language = NoLanguage /\ CallLines >= 1)
    => /\ Len(chunkOut) >= 1
       /\ \A i \in 1..Len(chunkOut) :
             /\ chunkOut[i].chunk_type = "Block"
             /\ chunkOut[i].context = <<FileCrumb("a.ts")>>

(***************************************************************************)
(* Claims about the pipeline of process_file.                              *)
(***************************************************************************)
\* the steps of process_file on one file, in their order
Pipeline == <<"read", "gate", "chunk", "embed", "insert", "manifest">>

StageOf(pc) == CHOOSE i \in 1..Len(Pipeline) : Pipeline[i] = pc

InPipeline(pc) == \E i \in 1..Len(Pipeline) : Pipeline[i] = pc

\* a task that stays on its file moves to the next step of the pipeline
InOrderStep(t) ==
    (/\ InPipeline(tasks[t].pc)
     /\ tasks'[t].pc # tasks[t].pc
     /\ tasks'[t].queue = tasks[t].queue)
    => /\ InPipeline(tasks'[t].pc)
       /\ StageOf(tasks'[t].pc) = StageOf(tasks[t].pc) + 1

\* a task comes to the write of the manifest by the step in which
\* insert_batch took the records of its file, with the hash of what it read
ManifestAfterInsert(t) ==
    (tasks'[t].pc = "manifest" /\ tasks[t].pc # "manifest")
    => /\ tasks[t].pc = "insert"
       /\ tasks'[t].queue = tasks[t].queue
       /\ tasks'[t].content = tasks[t].content
       /\ tasks[t].n >= 1
       /\ PreparedRecords(Cur(t).path, compute_hash(tasks[t].content), tasks[t].n)
             \subseteq store'

\* a hash comes into the manifest by the write of a task that is at that
\* step, for its file and the hash of what it read
HashFromTask(p) ==
    (manifest'[p] # manifest[p] /\ manifest'[p] # NoHash)
    => \E t \in TaskIds :
          /\ tasks[t].pc = "manifest"
          /\ Cur(t).path = p
          /\ manifest'[p] = compute_hash(tasks[t].content)

\* C29: process_file runs hash check, chunk, embed, insert_batch and manifest
\* write in that order, and the manifest entry of a file is set to a hash only
\* after insert_batch of the file's records with that hash has succeeded.
C29_ManifestAfterStore ==
    [][/\ \A t \in TaskIds : InOrderStep(t) /\ ManifestAfterInsert(t)
       /\ \A p \in Paths : HashFromTask(p)]_vars

\* C29, its case: the manifest holds the hash of a file and the store holds
\* records of the file with that hash.
C29_Witness ==
    \E p \in Paths :
        /\ manifest[p] # NoHash
        /\ \E r \in store : r.path = p /\ r.hash = manifest[p]

\* a node that is a definition, or holds one
RECURSIVE HasDefinition(_)
HasDefinition(node) ==
    \/ is_definition_node(node)
    \/ \E i \in 1..Len(node.children) : HasDefinition(node.children[i])

\* the parse of a file holds a definition node
FileHasDefinition(segs) ==
    \E k \in 1..Len(FileNodes(segs)) : HasDefinition(FileNodes(segs)[k])

\* task t takes the step of the chunking, with the grammar of its file loaded
ChunksWithGrammar(t) ==
    /\ tasks[t].pc = "chunk"
    /\ tasks'[t] # tasks[t]
    /\ PathLanguage(Cur(t).path) # NoLanguage
    /\ PathLanguage(Cur(t).path) \in languages'

\* C33: for a file whose grammar loads and that holds no definition node,
\* Chunker::chunk returns no chunk, and process_file returns Ok with no
\* record inserted and no manifest entry written.
C33_NoDefinitionNoIndex ==
    [][\A t \in TaskIds :
          (ChunksWithGrammar(t) /\ ~FileHasDefinition(tasks[t].content))
          => /\ chunk(FileText(tasks[t].content, TRUE), Cur(t).path,
                      PathLanguage(Cur(t).path), FileNodes(tasks[t].content)) = <<>>
             /\ tasks'[t] = TaskOn(Tail(tasks[t].queue))
             /\ done'[Cur(t).path] = [action |-> Cur(t).action, ok |-> TRUE, task |-> t]
             /\ store' = store
             /\ manifest' = manifest]_vars

\* C33, its case: a file with a grammar and no definition, never changed, was
\* processed with Ok, and has no record and no manifest entry.
C33_Witness ==
    /\ changes = 0
    /\ files["a.ts"] = <<Seg("plain", 1, 8)>>
    /\ "typescript" \in languages
    /\ done["a.ts"] = [action |-> "Upsert", ok |-> TRUE, task |-> "sync"]
    /\ manifest["a.ts"] = NoHash
    /\ \A r \in store : r.path # "a.ts"

RECURSIVE Descendants(_)
\* the nodes of a sequence of nodes, with all the nodes below them
Descendants(nodes) ==
    IF nodes = <<>> THEN {}
    ELSE {Head(nodes)} \cup Descendants(Head(nodes).children)
                       \cup Descendants(Tail(nodes))

\* the definitions of the file of the call, nested ones included
CallDefs == {d \in Descendants(CallNodes) : is_definition_node(d)}

\* the bytes put before the text of a chunk: the header line of the
\* definition it is a window of, and the newline after it
HeaderBytes(c) ==
    IF ~c.hdr THEN 0
    ELSE LET d == CHOOSE d \in CallDefs :
                     /\ d.sb <= c.off /\ c.off < d.eb
                     /\ classify_node(d) = c.chunk_type
         IN  Len(extract_header_line(Slice(CallText, d.sb, d.eb))) + 1

\* the byte at offset b of the file is in the text of a chunk
ByteInChunk(b) ==
    \E i \in 1..Len(chunkOut) :
        /\ chunkOut[i].off <= b
        /\ b < chunkOut[i].off + chunkOut[i].len - HeaderBytes(chunkOut[i])

\* C40: in syntax mode, for a file with at least one definition, every byte
\* of the file that is not whitespace is in at least one chunk, the bytes of
\* an export_statement around a definition included.
C40_ByteCoverage ==
    (chunkDone /\ chunkIn.language # NoLanguage /\ CallDefs # {})
    => \A b \in 0..(Len(CallText) - 1) :
          ~IsBlank(CallText, b, b + 1) => ByteInChunk(b)

(***************************************************************************)
(* Claims about split_if_too_big (under SpecSplit).                        *)
(***************************************************************************)
\* the bytes of the chunk that a sub-chunk holds: its content, less the
\* header line put before it
BodyStart(c) == c.off

BodyEnd(c) == c.off + c.len - (IF c.hdr THEN chunkIn.width ELSE 0)

\* the bytes of line l of the chunk, its newline aside
LineStart(l) == l * chunkIn.width

LineEnd(l) == l * chunkIn.width + chunkIn.width - 1

\* line l is whole in one sub-chunk
LineInSubChunk(l) ==
    \E i \in 1..Len(chunkOut) :
        BodyStart(chunkOut[i]) <= LineStart(l) /\ LineEnd(l) <= BodyEnd(chunkOut[i])

\* every byte of line l is in a sub-chunk
LineBytesInSubChunks(l) ==
    \A b \in LineStart(l)..(LineEnd(l) - 1) :
        \E i \in 1..Len(chunkOut) :
            BodyStart(chunkOut[i]) <= b /\ b < BodyEnd(chunkOut[i])

\* no window of the chunk, with its header, is over MAX_CHARS
WindowsUnsplit == chunkIn.width * (MAX_LINES + 1) <= MAX_CHARS

\* C34: when a chunk of more than MAX_LINES lines is split by line windows,
\* the windows of fewer than 3 lines after the first being dropped, every
\* line of the chunk is in at least one sub-chunk: every byte of it, and the
\* whole line in one sub-chunk when no window is split again by characters.
C34_SplitKeepsLines ==
    (chunkDone /\ chunkIn.lines > MAX_LINES)
    => \A l \in 0..(chunkIn.lines - 1) :
          /\ LineBytesInSubChunks(l)
          /\ WindowsUnsplit => LineInSubChunk(l)

\* C34, its case: a chunk of two strides and one line, whose third window,
\* of one line, is dropped.
C34_Witness ==
    /\ chunkDone
    /\ chunkIn.lines = 2 * STRIDE_LINES + 1
    /\ WindowsUnsplit
    /\ Len(chunkOut) = 2

\* process_file of task t returns Ok for the file of its current event, and
\* the file still has the content process_file read
ReturnsOk(t) ==
    /\ Running(t)
    /\ Cur(t).action = "Upsert"
    /\ tasks'[t] = TaskOn(Tail(tasks[t].queue))
    /\ done'[Cur(t).path] = [action |-> "Upsert", ok |-> TRUE, task |-> t]
    /\ files[Cur(t).path] # NoFile
    /\ tasks[t].pc = "read" \/ tasks[t].content = files[Cur(t).path]

\* C37: when process_file returns Ok for a file, the store holds no record of
\* the file with a hash other than the hash of the content the file has then.
C37_NoOldRecords ==
    [][\A t \in TaskIds :
          ReturnsOk(t)
          => \A r \in store' :
                r.path = Cur(t).path => r.hash = compute_hash(files[Cur(t).path])]_vars

\* the initial sync and the task of the watcher's batch have ended
AllTasksFinished == \A t \in TaskIds : tasks[t].pc = "finished"

\* the file at p has a content that gives chunks, with and without a grammar
HasChunks(p) ==
    /\ files[p] \notin {NoFile, <<>>}
    /\ FileHasDefinition(files[p])

\* C38: when every change of a file was reported by the watcher and all
\* indexing tasks have ended, the last of them on the file with Ok, the
\* manifest entry and the store records of the file carry the hash of the
\* content the file has.
C38_FinalContentIndexed ==
    AllTasksFinished
    => \A p \in Paths :
          (HasChunks(p) /\ done[p].ok)
          => /\ manifest[p] = compute_hash(files[p])
             /\ \A r \in store : r.path = p => r.hash = compute_hash(files[p])

====
